---- MODULE Spec2Model ----
(***************************************************************************)
(* Engagement tracking of the workshop sidekick                            *)
(* (src/zoom_mcp_server_production.py): the activity recorder              *)
(* track_participant_activity, the participant reconstructor               *)
(* get_participants and the analytics aggregator get_engagement_analytics, *)
(* over the two stores they use: the DynamoDB table                        *)
(* 'workshop-sidekick-engagement', keyed by (session_id, timestamp), and   *)
(* the CloudWatch log group '/aws/workshop-sidekick/engagement' with one   *)
(* log stream per session.                                                 *)
(*                                                                         *)
(* The stores are outside the program.  Every call the program makes to    *)
(* them has an outcome the program cannot choose: "ok", "ClientError"      *)
(* (botocore.exceptions.ClientError, the only exception the inner handlers *)
(* catch) or "Error" (any other exception, such as a connection failure).  *)
(* The outcomes are inputs of each action, limited to those the state of   *)
(* the stores allows (a table that does not exist cannot be loaded, a log  *)
(* stream that does not exist cannot be written).                          *)
(*                                                                         *)
(* A Python dict is modelled as the sequence of its <<key, value>> pairs   *)
(* in insertion order, which is the order json.dumps and list(d.values())  *)
(* produce.                                                                *)
(***************************************************************************)
EXTENDS Integers, Sequences, FiniteSets, TLC

\* ------------------------------------------------------------------ bounds
\* Largest value of the clock read by datetime.now().
MaxTime == 1
\* Largest number of track_participant_activity calls in one behaviour in
\* which calls to the stores can fail (Spec).
MaxTracks == 1
\* Largest number of track_participant_activity calls in one behaviour in
\* which no call to the stores fails (SpecReliable).
MaxReliableTracks == 3
\* Largest number of records of a session recorded by earlier runs (SpecReport).
MaxRecords == 11
\* Largest number of calls of the scenario that read the same clock value as
\* the call before them (SpecScenario).
MaxCollisions == 1
\* Largest number of records of a session whose statistics are read (SpecStats).
MaxStatsRecords == 2
\* Largest number of words of the chat messages of one behaviour (SpecAgent).
MaxWords == 2
\* Largest number of questions the agent answered before a summary
\* (SpecSummary).
MaxQuestions == 11
\* Largest number of technical issues the agent handled before a summary
\* (SpecSummary).
MaxIssues == 4

\* ------------------------------------------------------- program constants
ScoreCap == 100
ActivityWeight == 2
ParticipantWeight == 10
TopN == 5
SecondsPerMinute == 60

\* ------------------------------------------------------------ input domains
Sessions == {"s1", "s2"}
Participants == {"Alice", "Bob"}
ActivityTypes == {"question", "chat_message"}
Details == {""}

\* Outcomes of one call to an external service.
Outcomes == {"ok", "ClientError", "Error"}
Unused == "unused"

VARIABLES
    now,          \* the clock: the value of the last datetime.now() read
    times,        \* the values the host's clock shows in this behaviour
    tableExists,  \* whether the DynamoDB table exists
    ddb,          \* the items of the DynamoDB table
    logGroup,     \* whether the CloudWatch log group exists
    logStreams,   \* the log streams of the group (one per session id)
    cwl,          \* cwl[s]: the events of log stream s, in order
    faults,       \* whether calls to the stores can fail in this behaviour
    calls,        \* history: the track calls made so far, with their outcome
    last,         \* the call whose result the caller is being handed: its
                  \* arguments, the outcomes of its store calls and its result
    server,       \* the chat server process: its variant and what its
                  \* initialisation found (inference client, workshop content)
    exchange,     \* the HTTP request being answered by the chat server, with
                  \* the inference calls made for it and its response
    loaded,       \* whether the content loader of the chat agent found the
                  \* workshop content directory
    chat_history, \* the chat_history of the chat agent
    turn          \* the call of the chat agent whose result its caller is
                  \* being handed

\* The variables of the chat server, a process of its own.
webVars == <<server, exchange>>

\* The variables of the engagement tools and their stores.
toolVars == <<now, times, tableExists, ddb, logGroup, logStreams, cwl, faults, calls, last>>

\* The variables of the chat agent, a process of its own.
agentVars == <<loaded, chat_history, turn>>

vars == <<now, times, tableExists, ddb, logGroup, logStreams, cwl, faults, calls, last,
          server, exchange, loaded, chat_history, turn>>

\* ------------------------------------------------------------------ helpers
Min(a, b) == IF a <= b THEN a ELSE b

\* dict: <<key, value>> pairs in insertion order.
DictKeys(d) == {d[i][1] : i \in 1..Len(d)}

DictIndex(d, k) == CHOOSE i \in 1..Len(d) : d[i][1] = k

\* d.get(k, default)
DictGet(d, k, default) ==
    IF k \in DictKeys(d) THEN d[DictIndex(d, k)][2] ELSE default

\* d[k] = v: an existing key keeps its position, a new key goes last.
DictSet(d, k, v) ==
    IF k \in DictKeys(d)
    THEN [d EXCEPT ![DictIndex(d, k)] = <<k, v>>]
    ELSE Append(d, <<k, v>>)

\* list(d.values())
DictValues(d) == [i \in 1..Len(d) |-> d[i][2]]

\* --------------------------------------------------------------- the stores
\* A key schema without the session: timestamp only.
SameTimestamp(i, j) == i.timestamp = j.timestamp

\* The key schema of the table: session_id (HASH), timestamp (RANGE).
SameKey(i, j) == i.session_id = j.session_id /\ i.timestamp = j.timestamp

\* table.put_item(Item=item): an item with the same key is replaced.
put_item(items, item) == {i \in items : ~SameKey(i, item)} \cup {item}

\* The items of a set, ascending by timestamp (the table's sort key; the items
\* of one session have distinct timestamps).
RECURSIVE ByTimestamp(_)
ByTimestamp(S) ==
    IF S = {} THEN <<>>
    ELSE LET first == CHOOSE i \in S : \A j \in S : i.timestamp <= j.timestamp
         IN  <<first>> \o ByTimestamp(S \ {first})

\* table.query(KeyConditionExpression=Key('session_id').eq(session_id))['Items']
\* (the sessions of the model fit in one page of the query).
query(items, session_id) ==
    ByTimestamp({i \in items : i.session_id = session_id})

\* json.dumps(activity): the members of the object, in the order of the dict.
json_dumps(activity) ==
    << <<"timestamp", activity.timestamp>>,
       <<"participant", activity.participant>>,
       <<"activity", activity.activity>>,
       <<"details", activity.details>>,
       <<"session_id", activity.session_id>> >>

\* The text of a log event is a JSON object, modelled as the sequence of its
\* <<name, value>> members, or a text that is not JSON, modelled as a sequence
\* with an element that is no pair.
IsJson(message) == \A i \in 1..Len(message) : Len(message[i]) = 2

\* json.loads(message) of a JSON object: the dict of the members it has, the
\* last of the members of one name.
RECURSIVE json_loads(_)
json_loads(message) ==
    IF message = <<>> THEN <<>>
    ELSE LET n == Len(message)
         IN  (message[n][1] :> message[n][2])
                 @@ json_loads(SubSeq(message, 1, n - 1))

\* activity.get(key, default)
get(activity, key, default) ==
    IF key \in DOMAIN activity THEN activity[key] ELSE default

\* logs_client.get_log_events(logGroupName, logStreamName)['events']
get_log_events(streams, session_id) == streams[session_id]

\* What str(e) shows of an exception: its type and the call that raised it.
Exc(type, at) == [type |-> type, at |-> at]

\* ------------------------------------------------------------------ the clock
\* The values datetime.now() can return when the read before it returned t.
\* It is the local wall clock of the host: between two reads it shows the same
\* value, a later one, or an earlier one (the hour repeated at the end of
\* daylight saving time, a clock that was set back).
Readings(t) == {t} \cup times

\* ------------------------------------------------------- get_dynamodb_table
\* load: the outcome of table.load(); create: the outcome of create_table,
\* called only when load raised ClientError.  The result is the table, None,
\* or the exception that leaves the function.
get_dynamodb_table(load, create) ==
    IF load = "ok" THEN [kind |-> "table"]
    ELSE IF load = "ClientError"
    THEN IF create = "ok" THEN [kind |-> "table"]
         ELSE IF create = "ClientError" THEN [kind |-> "none"]
         ELSE [kind |-> "raise", exc |-> Exc(create, "create_table")]
    ELSE [kind |-> "raise", exc |-> Exc(load, "load")]

\* create_table succeeded within get_dynamodb_table: the table exists afterwards.
TableAfter(load, create) ==
    tableExists \/ (load = "ClientError" /\ create = "ok")

\* The outcomes load and create can have in the current state.
TableEnvOk(load, create) ==
    /\ load \in Outcomes
    /\ load = "ok" => tableExists
    /\ IF load = "ClientError"
       THEN create \in Outcomes /\ (create = "ok" => ~tableExists)
       ELSE create = Unused

\* ------------------------------------------------------------- the caller
\* The tools are called one at a time (mcp.run serves one request after the
\* other): a call starts when the result of the previous one has been handed
\* to the caller.
NoCall == [op |-> "none"]

Idle == last = NoCall

\* The caller takes the result of the call.
Return ==
    /\ ~Idle
    /\ last' = NoCall
    /\ UNCHANGED <<now, times, tableExists, ddb, logGroup, logStreams, cwl, faults,
                   calls,
                   webVars, agentVars>>

\* ----------------------------------------------- track_participant_activity
\* The outcomes of the calls of one track call: load and create (within
\* get_dynamodb_table), put (table.put_item), mkgroup (create_log_group),
\* mkstream (create_log_stream), putlog (put_log_events), and clock, the value
\* datetime.now() returns for the timestamp of the log event, read after the
\* calls before put_log_events.  A call that is not made has the outcome
\* Unused; a call that does not get to put_log_events reads the clock once,
\* for the record.
\* In a behaviour without faults every call has the outcome the state of the
\* stores determines: load succeeds if the table exists and raises ClientError
\* (ResourceNotFoundException) if not, and create_table then succeeds.
TableEnvs ==
    {e \in [load : Outcomes, create : Outcomes \cup {Unused}] :
        /\ TableEnvOk(e.load, e.create)
        /\ ~faults => /\ e.load = (IF tableExists THEN "ok" ELSE "ClientError")
                       /\ e.create \in {"ok", Unused}}

\* The outcomes of a call made on the table.
TableCallOutcomes == IF faults THEN Outcomes ELSE {"ok"}

\* The outcomes of the three CloudWatch calls of the fallback branch.
LogEnvs(session_id) ==
    {e \in [mkgroup : Outcomes, mkstream : Outcomes \cup {Unused},
            putlog : Outcomes \cup {Unused}, clock : Readings(now)] :
        LET group1 == logGroup \/ e.mkgroup = "ok"
            streams1 == IF e.mkstream = "ok" THEN logStreams \cup {session_id}
                        ELSE logStreams
        IN  /\ e.mkgroup = "ok" => ~logGroup
            /\ IF e.mkgroup = "Error"
               THEN e.mkstream = Unused ELSE e.mkstream # Unused
            /\ e.mkstream = "ok" => group1 /\ session_id \notin logStreams
            /\ IF e.mkstream \in {"ok", "ClientError"}
               THEN e.putlog # Unused ELSE e.putlog = Unused
            /\ e.putlog = "ok" => session_id \in streams1
            /\ e.putlog = Unused => e.clock = now}

NoLogCalls ==
    [mkgroup |-> Unused, mkstream |-> Unused, putlog |-> Unused, clock |-> now]

TrackEnvs(session_id) ==
    UNION {LET kind == get_dynamodb_table(te.load, te.create).kind
           IN  IF kind = "table"
               THEN {te @@ [put |-> o] @@ NoLogCalls : o \in TableCallOutcomes}
               ELSE IF kind = "none"
               THEN {te @@ [put |-> Unused] @@ le : le \in LogEnvs(session_id)}
               ELSE {te @@ [put |-> Unused] @@ NoLogCalls}
           : te \in TableEnvs}

\* The dict built before the try block.
Activity(participant_name, activity_type, details, session_id) ==
    [timestamp |-> now, participant |-> participant_name,
     activity |-> activity_type, details |-> details, session_id |-> session_id]

\* The JSON returned at the end of the try block.
TrackSuccess(participant_name, activity_type, storage_type, session_id) ==
    [tracked |-> TRUE, participant |-> participant_name,
     activity |-> activity_type, storage |-> storage_type,
     session_id |-> session_id]

\* The handler narrowed to "except ClientError": any other exception leaves
\* the function.
TrackFailure_OnlyClientError(exc, participant_name, activity_type) ==
    IF exc.type = "ClientError"
    THEN [tracked |-> FALSE, error |-> <<"Failed to track activity", exc>>,
          participant |-> participant_name, activity |-> activity_type]
    ELSE [raised |-> exc]

\* except Exception as e: the JSON returned for an exception raised in the try
\* block.
TrackFailure(exc, participant_name, activity_type) ==
    [tracked |-> FALSE, error |-> <<"Failed to track activity", exc>>,
     participant |-> participant_name, activity |-> activity_type]

\* The try block with a put_log_events that appends the event and then raises.
TrackBody_LogThenRaise(participant_name, activity_type, details, session_id, e) ==
    LET activity == Activity(participant_name, activity_type, details, session_id)
        t == get_dynamodb_table(e.load, e.create)
        same == [tableExists |-> TableAfter(e.load, e.create), ddb |-> ddb,
                 logGroup |-> logGroup, logStreams |-> logStreams, cwl |-> cwl]
        group1 == logGroup \/ e.mkgroup = "ok"
        streams1 == IF e.mkstream = "ok" THEN logStreams \cup {session_id}
                    ELSE logStreams
        event == [timestamp |-> e.clock, message |-> json_dumps(activity)]
    IN  IF t.kind = "raise" THEN same @@ [ok |-> FALSE, exc |-> t.exc]
        ELSE IF t.kind = "table"
        THEN IF e.put = "ok"
             THEN [same EXCEPT !.ddb = put_item(ddb, activity)]
                  @@ [ok |-> TRUE, storage |-> "DynamoDB"]
             ELSE same @@ [ok |-> FALSE, exc |-> Exc(e.put, "put_item")]
        ELSE IF e.mkgroup = "Error"
        THEN same @@ [ok |-> FALSE, exc |-> Exc(e.mkgroup, "create_log_group")]
        ELSE IF e.mkstream = "Error"
        THEN [same EXCEPT !.logGroup = group1]
             @@ [ok |-> FALSE, exc |-> Exc(e.mkstream, "create_log_stream")]
        ELSE IF e.putlog = "ok"
        THEN [same EXCEPT !.logGroup = group1, !.logStreams = streams1,
                          !.cwl = [cwl EXCEPT ![session_id] = Append(@, event)]]
             @@ [ok |-> TRUE, storage |-> "CloudWatch Logs"]
        ELSE [same EXCEPT !.logGroup = group1, !.logStreams = streams1,
                          !.cwl = [cwl EXCEPT ![session_id] = Append(@, event)]]
             @@ [ok |-> FALSE, exc |-> Exc(e.putlog, "put_log_events")]

\* The body of the try block up to the return: the stores afterwards, and
\* either the backend that took the record or the exception raised.
TrackBody(participant_name, activity_type, details, session_id, e) ==
    LET activity == Activity(participant_name, activity_type, details, session_id)
        t == get_dynamodb_table(e.load, e.create)
        same == [tableExists |-> TableAfter(e.load, e.create), ddb |-> ddb,
                 logGroup |-> logGroup, logStreams |-> logStreams, cwl |-> cwl]
        group1 == logGroup \/ e.mkgroup = "ok"
        streams1 == IF e.mkstream = "ok" THEN logStreams \cup {session_id}
                    ELSE logStreams
        event == [timestamp |-> e.clock, message |-> json_dumps(activity)]
    IN  IF t.kind = "raise" THEN same @@ [ok |-> FALSE, exc |-> t.exc]
        ELSE IF t.kind = "table"
        THEN IF e.put = "ok"
             THEN [same EXCEPT !.ddb = put_item(ddb, activity)]
                  @@ [ok |-> TRUE, storage |-> "DynamoDB"]
             ELSE same @@ [ok |-> FALSE, exc |-> Exc(e.put, "put_item")]
        ELSE IF e.mkgroup = "Error"
        THEN same @@ [ok |-> FALSE, exc |-> Exc(e.mkgroup, "create_log_group")]
        ELSE IF e.mkstream = "Error"
        THEN [same EXCEPT !.logGroup = group1]
             @@ [ok |-> FALSE, exc |-> Exc(e.mkstream, "create_log_stream")]
        ELSE IF e.putlog = "ok"
        THEN [same EXCEPT !.logGroup = group1, !.logStreams = streams1,
                          !.cwl = [cwl EXCEPT ![session_id] = Append(@, event)]]
             @@ [ok |-> TRUE, storage |-> "CloudWatch Logs"]
        ELSE [same EXCEPT !.logGroup = group1, !.logStreams = streams1]
             @@ [ok |-> FALSE, exc |-> Exc(e.putlog, "put_log_events")]

\* Whether a result of track_participant_activity reports success.
Tracked(r) == "tracked" \in DOMAIN r /\ r.tracked

\* What the caller of track_participant_activity gets.
TrackResult(participant_name, activity_type, details, session_id, e) ==
    LET b == TrackBody(participant_name, activity_type, details, session_id, e)
    IN  IF b.ok
        THEN TrackSuccess(participant_name, activity_type, b.storage, session_id)
        ELSE TrackFailure(b.exc, participant_name, activity_type)

track_participant_activity(participant_name, activity_type, details, session_id, e) ==
    LET b == TrackBody(participant_name, activity_type, details, session_id, e)
        r == TrackResult(participant_name, activity_type, details, session_id, e)
    IN  /\ Idle
        /\ tableExists' = b.tableExists
        /\ ddb' = b.ddb
        /\ logGroup' = b.logGroup
        /\ logStreams' = b.logStreams
        /\ cwl' = b.cwl
        /\ calls' = Append(calls, [session_id |-> session_id,
                                   participant |-> participant_name,
                                   timestamp |-> now, tracked |-> Tracked(r)])
        /\ last' = [op |-> "track", session_id |-> session_id, env |-> e,
                    result |-> r]
        /\ now' = e.clock
        /\ UNCHANGED <<times, faults, webVars, agentVars>>

\* The activity type has no effect on what a store call does; a behaviour with
\* faults draws one type.
TrackTypes == IF faults THEN {"question"} ELSE ActivityTypes

\* A behaviour makes a bounded number of track calls.
Track ==
    /\ Len(calls) < (IF faults THEN MaxTracks ELSE MaxReliableTracks)
    /\ \E p \in Participants, a \in TrackTypes, d \in Details, s \in Sessions :
          \E e \in TrackEnvs(s) : track_participant_activity(p, a, d, s, e)

\* The clock changes between calls, as it does within them, forward or back;
\* two calls may read the same value (calls of two server processes on one
\* table, a clock coarser than the time between two calls, or a clock that
\* went back).
Tick == /\ Idle
        /\ \E t \in times \ {now} : now' = t
        /\ UNCHANGED <<times, tableExists, ddb, logGroup, logStreams, cwl, faults,
                   calls, last,
                       webVars, agentVars>>

\* ---------------------------------------------------------- the read paths
\* The outcomes of the calls of one read: load and create (within
\* get_dynamodb_table), query (table.query), getlog (get_log_events), and
\* clock, the value datetime.now() returns for the timestamp of the result,
\* read after the calls to the stores.
ReadEnvs(session_id) ==
    UNION {LET kind == get_dynamodb_table(te.load, te.create).kind
           IN  IF kind = "table"
               THEN {te @@ [query |-> o, getlog |-> Unused, clock |-> t] :
                        o \in TableCallOutcomes, t \in Readings(now)}
               ELSE IF kind = "none"
               THEN {te @@ [query |-> Unused, getlog |-> o, clock |-> t] :
                        o \in {x \in Outcomes :
                                  x = "ok" => session_id \in logStreams},
                        t \in Readings(now)}
               ELSE {te @@ [query |-> Unused, getlog |-> Unused, clock |-> t] :
                        t \in Readings(now)}
           : te \in TableEnvs}

\* The messages of a stream's events, decoded: json.loads raises
\* JSONDecodeError for a text that is not JSON, and the loop goes on to the next
\* event.
RECURSIVE DecodeEvents(_)
DecodeEvents(events) ==
    IF events = <<>> THEN <<>>
    ELSE (IF IsJson(Head(events).message)
          THEN <<json_loads(Head(events).message)>>
          ELSE <<>>)
         \o DecodeEvents(Tail(events))

\* The members of a record that the loop of get_participants subscripts, in
\* the order it does.
Subscripted == <<"participant", "timestamp">>

\* The KeyError the loop of get_participants raises: the first member missing
\* from the first record that lacks one.
Incomplete(items) ==
    {i \in 1..Len(items) :
        \E n \in 1..Len(Subscripted) : Subscripted[n] \notin DOMAIN items[i]}

MissingKey(items) ==
    LET i == CHOOSE i \in Incomplete(items) :
                 \A j \in Incomplete(items) : i <= j
        n == CHOOSE n \in 1..Len(Subscripted) :
                 /\ Subscripted[n] \notin DOMAIN items[i]
                 /\ \A m \in 1..(n - 1) : Subscripted[m] \in DOMAIN items[i]
    IN  Exc("KeyError", Subscripted[n])

\* ------------------------------------------------------------ get_participants
\* The loop counting the records after the first: a new name gets a summary
\* with activity_count 0.
AddRecord_CountFromZero(participants, item) ==
    LET participant == item.participant
    IN  IF participant \notin DictKeys(participants)
        THEN DictSet(participants, participant,
                     [name |-> participant, status |-> "active",
                      join_time |-> item.timestamp, activity_count |-> 0,
                      last_activity |-> item.timestamp])
        ELSE DictSet(participants, participant,
                     [DictGet(participants, participant, <<>>) EXCEPT
                        !.activity_count = @ + 1,
                        !.last_activity = item.timestamp])

\* One step of the loop over the records: a new name gets a summary, a known
\* name gets its count incremented and its last_activity replaced.
AddRecord(participants, item) ==
    LET participant == item.participant
    IN  IF participant \notin DictKeys(participants)
        THEN DictSet(participants, participant,
                     [name |-> participant, status |-> "active",
                      join_time |-> item.timestamp, activity_count |-> 1,
                      last_activity |-> item.timestamp])
        ELSE DictSet(participants, participant,
                     [DictGet(participants, participant, <<>>) EXCEPT
                        !.activity_count = @ + 1,
                        !.last_activity = item.timestamp])

\* The participants dict after the loop over the records.
RECURSIVE FoldParticipants(_, _)
FoldParticipants(participants, items) ==
    IF items = <<>> THEN participants
    ELSE FoldParticipants(AddRecord(participants, Head(items)), Tail(items))

\* The JSON returned at the end of the try block.
ParticipantsResult(participants, session_id, timestamp) ==
    LET participant_list == DictValues(participants)
        active_count ==
            Cardinality({i \in 1..Len(participant_list) :
                            participant_list[i].status = "active"})
    IN  [total_participants |-> Len(participant_list),
         participants |-> participant_list,
         active_count |-> active_count,
         timestamp |-> timestamp,
         session_id |-> session_id]

\* The handler returning the empty result without its error field.
ParticipantsFailure_NoError(exc, timestamp) ==
    [total_participants |-> 0, participants |-> <<>>, active_count |-> 0,
     timestamp |-> timestamp]

\* except Exception as e
ParticipantsFailure(exc, timestamp) ==
    [total_participants |-> 0, participants |-> <<>>, active_count |-> 0,
     error |-> <<"Failed to get participants", exc>>, timestamp |-> timestamp]

\* What the caller of get_participants gets, the stores being table and
\* streams.
ParticipantsOf(table, streams, session_id, e) ==
    LET t == get_dynamodb_table(e.load, e.create)
        counted(items) ==
            IF Incomplete(items) # {}
            THEN ParticipantsFailure(MissingKey(items), e.clock)
            ELSE ParticipantsResult(FoldParticipants(<<>>, items),
                                    session_id, e.clock)
    IN  IF t.kind = "raise" THEN ParticipantsFailure(t.exc, e.clock)
        ELSE IF t.kind = "table"
        THEN IF e.query = "ok"
             THEN counted(query(table, session_id))
             ELSE ParticipantsFailure(Exc(e.query, "query"), e.clock)
        ELSE IF e.getlog = "ok"
        THEN counted(DecodeEvents(get_log_events(streams, session_id)))
        ELSE IF e.getlog = "ClientError"
        THEN ParticipantsResult(<<>>, session_id, e.clock)
        ELSE ParticipantsFailure(Exc(e.getlog, "get_log_events"), e.clock)

\* The read recording itself as an activity of the session.
get_participants_recording(session_id, e) ==
    /\ Idle
    /\ tableExists' = TableAfter(e.load, e.create)
    /\ ddb' = IF tableExists'
              THEN put_item(ddb, Activity("system", "get_participants", "",
                                          session_id))
              ELSE ddb
    /\ last' = [op |-> "get_participants", session_id |-> session_id,
                env |-> e, result |-> ParticipantsOf(ddb, cwl, session_id, e)]
    /\ now' = e.clock
    /\ UNCHANGED <<times, logGroup, logStreams, cwl, faults, calls, webVars,
                   agentVars>>

get_participants(session_id, e) ==
    /\ Idle
    /\ tableExists' = TableAfter(e.load, e.create)
    /\ last' = [op |-> "get_participants", session_id |-> session_id,
                env |-> e, result |-> ParticipantsOf(ddb, cwl, session_id, e)]
    /\ now' = e.clock
    /\ UNCHANGED <<times, ddb, logGroup, logStreams, cwl, faults, calls, webVars,
                   agentVars>>

GetParticipants ==
    \E s \in Sessions : \E e \in ReadEnvs(s) : get_participants(s, e)

\* The count of a key set to one at every occurrence.
DictInc_SetToOne(d, k) == DictSet(d, k, 1)

\* ---------------------------------------------------- get_engagement_analytics
\* d[k] = d.get(k, 0) + 1
DictInc(d, k) == DictSet(d, k, DictGet(d, k, 0) + 1)

\* activity_types after the loop over the activities.
RECURSIVE CountTypes(_, _)
CountTypes(activity_types, activities) ==
    IF activities = <<>> THEN activity_types
    ELSE CountTypes(DictInc(activity_types,
                            get(Head(activities), "activity", "unknown")),
                    Tail(activities))

\* participant_activity after the loop over the activities.
RECURSIVE CountParticipants(_, _)
CountParticipants(participant_activity, activities) ==
    IF activities = <<>> THEN participant_activity
    ELSE CountParticipants(
             DictInc(participant_activity,
                     get(Head(activities), "participant", "unknown")),
             Tail(activities))

\* A pair put into a list sorted by count, descending: after every pair whose
\* count is at least its own (sorted(..., reverse=True) is stable).
RECURSIVE InsertDesc(_, _)
InsertDesc(sorted, pair) ==
    IF sorted = <<>> THEN <<pair>>
    ELSE IF Head(sorted)[2] >= pair[2]
    THEN <<Head(sorted)>> \o InsertDesc(Tail(sorted), pair)
    ELSE <<pair>> \o sorted

\* sorted(participant_activity.items(), key=lambda x: x[1], reverse=True)
RECURSIVE SortedDesc(_, _)
SortedDesc(sorted, items) ==
    IF items = <<>> THEN sorted
    ELSE SortedDesc(InsertDesc(sorted, Head(items)), Tail(items))

\* [:5]
Truncate(q, n) == SubSeq(q, 1, Min(n, Len(q)))

\* The tally truncated without sorting it.
top_participants_unsorted(participant_activity) ==
    Truncate(participant_activity, TopN)

top_participants(participant_activity) ==
    Truncate(SortedDesc(<<>>, participant_activity), TopN)

\* The score with records and participants weighing one point each.
engagement_score_unweighted(total_activities, unique_participants) ==
    Min(ScoreCap, total_activities + unique_participants)

\* The score counting only the activities.
engagement_score_activities_only(total_activities, unique_participants) ==
    Min(ScoreCap, total_activities * ActivityWeight)

\* The score without its cap.
engagement_score_uncapped(total_activities, unique_participants) ==
    (total_activities * ActivityWeight) + (unique_participants * ParticipantWeight)

engagement_score(total_activities, unique_participants) ==
    Min(ScoreCap, (total_activities * ActivityWeight)
                      + (unique_participants * ParticipantWeight))

HighEngagement == "High engagement detected - workshop is going well"
LowEngagement == "Low engagement - consider encouraging more participation"
ManyQuestions == "Many questions being asked - consider extending Q&A time"
FewQuestions == "Few questions - consider prompting for questions"
GoodChat == "Good chat interaction"
MoreChat == "Encourage more chat participation"

\* The three rules chained into one if/elif: the first rule that adds a line
\* suppresses the rules after it.
recommendations_first_match(score, question_count, chat_count) ==
    IF score > 70 THEN <<HighEngagement>>
    ELSE IF score < 30 THEN <<LowEngagement>>
    ELSE IF question_count > 5 THEN <<ManyQuestions>>
    ELSE IF question_count < 2 THEN <<FewQuestions>>
    ELSE IF chat_count > 10 THEN <<GoodChat>> ELSE <<MoreChat>>

\* The chat rule without its else branch.
recommendations_no_else(score, question_count, chat_count) ==
    (IF score > 70 THEN <<HighEngagement>>
     ELSE IF score < 30 THEN <<LowEngagement>> ELSE <<>>)
    \o (IF question_count > 5 THEN <<ManyQuestions>>
        ELSE IF question_count < 2 THEN <<FewQuestions>> ELSE <<>>)
    \o (IF chat_count > 10 THEN <<GoodChat>> ELSE <<>>)

recommendations(score, question_count, chat_count) ==
    (IF score > 70 THEN <<HighEngagement>>
     ELSE IF score < 30 THEN <<LowEngagement>> ELSE <<>>)
    \o (IF question_count > 5 THEN <<ManyQuestions>>
        ELSE IF question_count < 2 THEN <<FewQuestions>> ELSE <<>>)
    \o (IF chat_count > 10 THEN <<GoodChat>> ELSE <<MoreChat>>)

\* The JSON returned at the end of the try block.
AnalyticsResult(activities, session_id, timestamp) ==
    LET activity_types == CountTypes(<<>>, activities)
        participant_activity == CountParticipants(<<>>, activities)
        total_activities == Len(activities)
        unique_participants == Len(participant_activity)
        score == engagement_score(total_activities, unique_participants)
        question_count == DictGet(activity_types, "question", 0)
        chat_count == DictGet(activity_types, "chat_message", 0)
    IN  [total_activities |-> total_activities,
         unique_participants |-> unique_participants,
         engagement_score |-> score,
         activity_breakdown |-> activity_types,
         top_participants |-> top_participants(participant_activity),
         recommendations |-> recommendations(score, question_count, chat_count),
         session_id |-> session_id,
         timestamp |-> timestamp]

\* The handler returning the zero-valued report without its error field.
AnalyticsFailure_NoError(exc, timestamp) ==
    [total_activities |-> 0, unique_participants |-> 0, engagement_score |-> 0,
     timestamp |-> timestamp]

\* except Exception as e
AnalyticsFailure(exc, timestamp) ==
    [total_activities |-> 0, unique_participants |-> 0, engagement_score |-> 0,
     error |-> <<"Analytics generation failed", exc>>, timestamp |-> timestamp]

\* What the caller of get_engagement_analytics gets, the stores being table
\* and streams.
AnalyticsOf(table, streams, session_id, e) ==
    LET t == get_dynamodb_table(e.load, e.create)
    IN  IF t.kind = "raise" THEN AnalyticsFailure(t.exc, e.clock)
        ELSE IF t.kind = "table"
        THEN IF e.query = "ok"
             THEN AnalyticsResult(query(table, session_id), session_id, e.clock)
             ELSE AnalyticsFailure(Exc(e.query, "query"), e.clock)
        ELSE IF e.getlog = "ok"
        THEN AnalyticsResult(DecodeEvents(get_log_events(streams, session_id)),
                             session_id, e.clock)
        ELSE IF e.getlog = "ClientError"
        THEN AnalyticsResult(<<>>, session_id, e.clock)
        ELSE AnalyticsFailure(Exc(e.getlog, "get_log_events"), e.clock)

get_engagement_analytics(session_id, e) ==
    LET r == AnalyticsOf(ddb, cwl, session_id, e)
    IN  /\ Idle
        /\ tableExists' = TableAfter(e.load, e.create)
        /\ last' = [op |-> "get_engagement_analytics", session_id |-> session_id,
                    env |-> e, result |-> r]
        /\ now' = e.clock
        /\ UNCHANGED <<times, ddb, logGroup, logStreams, cwl, faults, calls,
                       webVars, agentVars>>

GetEngagementAnalytics ==
    \E s \in Sessions : \E e \in ReadEnvs(s) : get_engagement_analytics(s, e)

\* --------------------------------------------------------- get_workshop_stats
\* The outcomes load and create can have when the table exists or not: the
\* three get_dynamodb_table calls of one get_workshop_stats call follow each
\* other, and the first or the second may create the table.
TableEnvOkWhen(exists, load, create) ==
    /\ load \in Outcomes
    /\ load = "ok" => exists
    /\ IF load = "ClientError"
       THEN create \in Outcomes /\ (create = "ok" => ~exists)
       ELSE create = Unused
    /\ ~faults => /\ load = (IF exists THEN "ok" ELSE "ClientError")
                   /\ create \in {"ok", Unused}

\* The outcomes of the store calls of a read made when the table exists or not
\* and the clock has shown t.
ReadEnvOkWhen(exists, session_id, t, e) ==
    LET kind == get_dynamodb_table(e.load, e.create).kind
    IN  /\ TableEnvOkWhen(exists, e.load, e.create)
        /\ e.clock \in Readings(t)
        /\ IF kind = "table"
           THEN e.query \in TableCallOutcomes /\ e.getlog = Unused
           ELSE IF kind = "none"
           THEN /\ e.query = Unused
                /\ e.getlog \in Outcomes
                /\ e.getlog = "ok" => session_id \in logStreams
           ELSE e.query = Unused /\ e.getlog = Unused

ReadEnvsWhen(exists, session_id, t) ==
    {e \in [load : Outcomes, create : Outcomes \cup {Unused},
            query : Outcomes \cup {Unused}, getlog : Outcomes \cup {Unused},
            clock : Readings(t)] :
        ReadEnvOkWhen(exists, session_id, t, e)}

\* The values datetime.now() returns within get_workshop_stats after the two
\* reads, the last of which ended at t: started (for the duration, or for
\* start_time when the session has no participant), current (for
\* current_time) and clock (for last_update, or for the timestamp of the error
\* object).
StatsClocks(t) ==
    [started : Readings(t), current : Readings(t), clock : Readings(t)]

\* The report has no 'activity_breakdown': get_engagement_analytics returned
\* its error report.
AnalyticsFailed(analytics_data) == "activity_breakdown" \notin DOMAIN analytics_data

\* The outcomes of the calls of one get_workshop_stats call: those of
\* get_participants, those of get_engagement_analytics, and load and create of
\* the get_dynamodb_table call that names the storage, which is made only when
\* the report has its activity_breakdown.
StatsEnvs(session_id) ==
    UNION {
        LET exists1 == TableAfter(pe.load, pe.create)
        IN  UNION {
                LET exists2 == exists1 \/ (ae.load = "ClientError"
                                              /\ ae.create = "ok")
                    made == [participants |-> pe, analytics |-> ae]
                IN  UNION {
                      IF AnalyticsFailed(AnalyticsOf(ddb, cwl, session_id, ae))
                      THEN {made @@ ce @@ [load |-> Unused, create |-> Unused]}
                      ELSE {made @@ ce @@ te :
                              te \in {x \in [load : Outcomes,
                                             create : Outcomes \cup {Unused}] :
                                  TableEnvOkWhen(exists2, x.load, x.create)}}
                      : ce \in StatsClocks(ae.clock)}
                : ae \in ReadEnvsWhen(exists1, session_id, pe.clock)}
        : pe \in ReadEnvsWhen(tableExists, session_id, now)}

\* min(p["join_time"] for p in participants)
RECURSIVE earliest_join(_)
earliest_join(participants) ==
    IF Len(participants) = 1 THEN participants[1].join_time
    ELSE Min(participants[1].join_time, earliest_join(Tail(participants)))

\* int((datetime.now() - start_time).total_seconds() / 60), the clock counting
\* seconds: int() drops the fraction of the quotient, towards zero.
duration_minutes(current, start_time) ==
    LET seconds == current - start_time
    IN  IF seconds >= 0 THEN seconds \div SecondsPerMinute
        ELSE 0 - ((0 - seconds) \div SecondsPerMinute)

\* The stats dict.
StatsResult(participants_data, analytics_data, storage_status, session_id, c) ==
    [session_info |->
        [session_id |-> session_id,
         start_time |-> IF participants_data.participants # <<>>
                        THEN earliest_join(participants_data.participants)
                        ELSE c.started,
         current_time |-> c.current,
         duration_minutes |->
            IF participants_data.participants # <<>>
            THEN duration_minutes(c.started,
                     earliest_join(participants_data.participants))
            ELSE 0,
         status |-> "active"],
     participation |->
        [currently_joined |-> participants_data.active_count,
         total_participants |-> participants_data.total_participants,
         peak_attendance |-> participants_data.total_participants],
     engagement |->
        [total_activities |-> analytics_data.total_activities,
         questions_asked |->
            DictGet(analytics_data.activity_breakdown, "question", 0),
         chat_messages |->
            DictGet(analytics_data.activity_breakdown, "chat_message", 0),
         engagement_score |-> analytics_data.engagement_score],
     technical_health |->
        [storage_status |-> storage_status,
         data_collection |-> "active",
         last_update |-> c.clock]]

\* except Exception as e
StatsFailure(exc, session_id, timestamp) ==
    [session_id |-> session_id,
     error |-> <<"Failed to get workshop stats", exc>>,
     timestamp |-> timestamp]

\* get_workshop_stats without its try block: the exception leaves the function.
StatsOf_Uncaught(session_id, e) ==
    LET participants_data == ParticipantsOf(ddb, cwl, session_id, e.participants)
        analytics_data == AnalyticsOf(ddb, cwl, session_id, e.analytics)
        t == get_dynamodb_table(e.load, e.create)
    IN  IF AnalyticsFailed(analytics_data)
        THEN [raised |-> Exc("KeyError", "activity_breakdown")]
        ELSE IF t.kind = "raise" THEN [raised |-> t.exc]
        ELSE StatsResult(participants_data, analytics_data,
                         IF t.kind = "table" THEN "DynamoDB"
                         ELSE "CloudWatch Logs",
                         session_id, e)

\* What the caller of get_workshop_stats gets.
StatsOf(session_id, e) ==
    LET participants_data == ParticipantsOf(ddb, cwl, session_id, e.participants)
        analytics_data == AnalyticsOf(ddb, cwl, session_id, e.analytics)
        t == get_dynamodb_table(e.load, e.create)
    IN  IF AnalyticsFailed(analytics_data)
        THEN StatsFailure(Exc("KeyError", "activity_breakdown"), session_id,
                          e.clock)
        ELSE IF t.kind = "raise" THEN StatsFailure(t.exc, session_id, e.clock)
        ELSE StatsResult(participants_data, analytics_data,
                         IF t.kind = "table" THEN "DynamoDB"
                         ELSE "CloudWatch Logs",
                         session_id, e)

get_workshop_stats(session_id, e) ==
    /\ Idle
    /\ tableExists' = (\/ tableExists
                       \/ \E c \in {e.participants, e.analytics, e} :
                             c.load = "ClientError" /\ c.create = "ok")
    /\ last' = [op |-> "get_workshop_stats", session_id |-> session_id,
                env |-> e, result |-> StatsOf(session_id, e)]
    /\ now' = e.clock
    /\ UNCHANGED <<times, ddb, logGroup, logStreams, cwl, faults, calls, webVars,
                   agentVars>>

GetWorkshopStats ==
    /\ Idle
    /\ \E s \in Sessions : \E e \in StatsEnvs(s) : get_workshop_stats(s, e)

\* ------------------------------------------------------------ specification
\* The stores when the server starts on an empty deployment: the table may or
\* may not exist, nothing is recorded.
\* ---------------------------------------------------------- the chat servers
\* The HTTP chat servers (src/production_server.py, src/debug_server.py,
\* src/server.py): a WorkshopHandler on http.server.BaseHTTPRequestHandler and
\* the agent whose process_message it calls.  One request is handled at a time
\* (HTTPServer.serve_forever), and the connection stays open until the
\* response is written.
Variants == {"production", "debug", "server"}

\* The requests: a method with or without a do_<method> handler, a path, and
\* for a POST its body: a JSON object, JSON that is not an object, bytes that
\* are not JSON, or no Content-Length header at all.  The 'message' member of
\* the object is a string or a number, 'session_id' is present or absent.
Methods == {"GET", "POST", "PUT"}
Paths == {"/chat", "/health", "/", "/other"}
Bodies == {"object", "not_object", "not_json", "no_length"}
Messages == {"text", "number"}
SessionIds == {"absent", "s1", "s2"}

Requests ==
    [method : Methods, path : Paths, body : Bodies, message : Messages,
     session_id : SessionIds]

\* The outcomes of one bedrock.invoke_model call: a response with the expected
\* members, a response without them, an exception.
InvokeOutcomes == {"ok", "malformed", "raise"}

\* One call of bedrock.invoke_model: what it was made for and its outcome.
Invocation(purpose, outcome) == [purpose |-> purpose, outcome |-> outcome]

NoExchange == [status |-> "none"]

\* What process_message hands back: the string it returns, the invoke_model
\* calls it made and the exceptions raised and caught inside it.
Returned(response, invocations, caught) ==
    [returned |-> TRUE, response |-> response, invocations |-> invocations,
     caught |-> caught]

\* production_server.WorkshopAgent.process_message: get_relevant_content
\* (query.lower(), then workshop_content['labs']), one invoke_model call, the
\* text of its response; every exception becomes the returned string.
Trouble(exc) == <<"I'm having trouble processing your request. Error", exc>>

\* The agent looking the content up after the inference call.
process_message_production_content_late(message, content, complete) ==
    IF message # "text"
    THEN Returned(Trouble("AttributeError: lower"), <<>>,
                  <<"AttributeError: lower">>)
    ELSE IF complete = "ok"
    THEN IF content
         THEN Returned("answer", <<Invocation("message", complete)>>, <<>>)
         ELSE Returned(Trouble("KeyError: labs"),
                       <<Invocation("message", complete)>>, <<"KeyError: labs">>)
    ELSE IF complete = "malformed"
    THEN Returned(Trouble("KeyError: content"),
                  <<Invocation("message", complete)>>, <<"KeyError: content">>)
    ELSE Returned(Trouble("invoke_model raised"),
                  <<Invocation("message", complete)>>, <<"invoke_model raised">>)

\* The agent letting the exception of the inference call leave process_message.
process_message_production_uncaught(message, content, complete) ==
    IF message # "text"
    THEN Returned(Trouble("AttributeError: lower"), <<>>,
                  <<"AttributeError: lower">>)
    ELSE IF ~content
    THEN Returned(Trouble("KeyError: labs"), <<>>, <<"KeyError: labs">>)
    ELSE IF complete = "ok"
    THEN Returned("answer", <<Invocation("message", complete)>>, <<>>)
    ELSE IF complete = "malformed"
    THEN Returned(Trouble("KeyError: content"),
                  <<Invocation("message", complete)>>, <<"KeyError: content">>)
    ELSE [returned |-> FALSE, exc |-> "invoke_model raised",
          invocations |-> <<Invocation("message", complete)>>]

\* The agent calling invoke_model once more after a call that raised.
process_message_production_retry(message, content, complete) ==
    IF message # "text"
    THEN Returned(Trouble("AttributeError: lower"), <<>>,
                  <<"AttributeError: lower">>)
    ELSE IF ~content
    THEN Returned(Trouble("KeyError: labs"), <<>>, <<"KeyError: labs">>)
    ELSE IF complete = "ok"
    THEN Returned("answer", <<Invocation("message", complete)>>, <<>>)
    ELSE IF complete = "malformed"
    THEN Returned(Trouble("KeyError: content"),
                  <<Invocation("message", complete)>>, <<"KeyError: content">>)
    ELSE Returned("answer", <<Invocation("message", complete),
                              Invocation("message", "ok")>>, <<>>)

process_message_production(message, content, complete) ==
    IF message # "text"
    THEN Returned(Trouble("AttributeError: lower"), <<>>,
                  <<"AttributeError: lower">>)
    ELSE IF ~content
    THEN Returned(Trouble("KeyError: labs"), <<>>, <<"KeyError: labs">>)
    ELSE IF complete = "ok"
    THEN Returned("answer", <<Invocation("message", complete)>>, <<>>)
    ELSE IF complete = "malformed"
    THEN Returned(Trouble("KeyError: content"),
                  <<Invocation("message", complete)>>, <<"KeyError: content">>)
    ELSE Returned(Trouble("invoke_model raised"),
                  <<Invocation("message", complete)>>, <<"invoke_model raised">>)

\* debug_server.WorkshopAgent.test_bedrock_connection: no call without a
\* client, else one invoke_model call ("Hello", max_tokens 10) whose response
\* is not read.
test_bedrock_connection(client, test) ==
    IF ~client
    THEN [connected |-> FALSE, status |-> "Bedrock client not initialized",
          invocations |-> <<>>, caught |-> <<>>]
    ELSE IF test = "raise"
    THEN [connected |-> FALSE, status |-> "invoke_model raised",
          invocations |-> <<Invocation("test", test)>>,
          caught |-> <<"invoke_model raised">>]
    ELSE [connected |-> TRUE, status |-> "Connected",
          invocations |-> <<Invocation("test", test)>>, caught |-> <<>>]

\* debug_server.WorkshopAgent.process_message: message[:50], the connection
\* test, then the invoke_model call for the message.
process_message_debug(message, client, test, complete) ==
    IF message # "text"
    THEN Returned(<<"Error", "TypeError: subscript">>, <<>>,
                  <<"TypeError: subscript">>)
    ELSE LET t == test_bedrock_connection(client, test)
         IN  IF ~t.connected
             THEN Returned(<<"Bedrock connection failed", t.status>>,
                           t.invocations, t.caught)
             ELSE IF complete = "ok"
             THEN Returned("answer",
                           Append(t.invocations, Invocation("message", complete)),
                           <<>>)
             ELSE IF complete = "malformed"
             THEN Returned(<<"Error", "KeyError: content">>,
                           Append(t.invocations, Invocation("message", complete)),
                           <<"KeyError: content">>)
             ELSE Returned(<<"Error", "invoke_model raised">>,
                           Append(t.invocations, Invocation("message", complete)),
                           <<"invoke_model raised">>)

\* working_agent.WorkshopSidekickAgent.process_message, which src/server.py
\* imports and src/working_agent.py does not define: one call of the
\* inference service whose text it returns; a failure of the call is caught
\* at the agent's own boundary and returned as the chat response string
\* describing the error, so no exception leaves it.
process_message_server(message, complete) ==
    IF complete = "ok"
    THEN Returned("answer", <<Invocation("message", complete)>>, <<>>)
    ELSE IF complete = "malformed"
    THEN Returned(<<"Error", "KeyError: content">>,
                  <<Invocation("message", complete)>>, <<"KeyError: content">>)
    ELSE Returned(<<"Error", "invoke_model raised">>,
                  <<Invocation("message", complete)>>, <<"invoke_model raised">>)

\* self.agent.process_message(message, session_id) of the variant running.
process_message(srv, message, test, complete) ==
    IF srv.variant = "production"
    THEN process_message_production(message, srv.content, complete)
    ELSE IF srv.variant = "debug"
    THEN process_message_debug(message, srv.client, test, complete)
    ELSE process_message_server(message, complete)

\* send_error(code, message): the response carries the code and the message.
send_error(code, message, invocations, raised) ==
    [status |-> code, reply |-> message, invocations |-> invocations,
     raised |-> raised]

\* send_response(200) and the body written.
send_response(reply, invocations, raised) ==
    [status |-> 200, reply |-> reply, invocations |-> invocations,
     raised |-> raised]

\* WorkshopHandler.do_POST.  raised: the exceptions raised while the request
\* was handled, in the handler or inside the agent.
do_POST(srv, request, test, complete) ==
    IF request.path = "/chat"
    THEN IF request.body = "no_length"
         THEN send_error(500, "TypeError: Content-Length", <<>>,
                         <<"TypeError: Content-Length">>)
         ELSE IF request.body = "not_json"
         THEN send_error(500, "JSONDecodeError", <<>>, <<"JSONDecodeError">>)
         ELSE IF request.body = "not_object"
         THEN send_error(500, "AttributeError: get", <<>>,
                         <<"AttributeError: get">>)
         ELSE LET session_id == IF request.session_id = "absent" THEN "default"
                                ELSE request.session_id
                  r == process_message(srv, request.message, test, complete)
              IN  IF r.returned
                  THEN send_response([response |-> r.response,
                                      session_id |-> session_id],
                                     r.invocations, r.caught)
                  ELSE send_error(500, r.exc, r.invocations, <<r.exc>>)
    ELSE send_error(404, "Not Found", <<>>, <<>>)

\* A handler serving the chat page for every GET path it does not know.
do_GET_page_by_default(srv, request, test) ==
    IF request.path = "/health"
    THEN IF srv.variant = "debug"
         THEN LET t == test_bedrock_connection(srv.client, test)
              IN  send_response([status |-> "healthy",
                                 bedrock_connected |-> t.connected,
                                 bedrock_status |-> t.status],
                                t.invocations, t.caught)
         ELSE send_response([status |-> "healthy"], <<>>, <<>>)
    ELSE send_response("chat page", <<>>, <<>>)

\* WorkshopHandler.do_GET
do_GET(srv, request, test) ==
    IF request.path = "/health"
    THEN IF srv.variant = "debug"
         THEN LET t == test_bedrock_connection(srv.client, test)
              IN  send_response([status |-> "healthy",
                                 bedrock_connected |-> t.connected,
                                 bedrock_status |-> t.status],
                                t.invocations, t.caught)
         ELSE send_response([status |-> "healthy"], <<>>, <<>>)
    ELSE IF request.path = "/"
    THEN send_response("chat page", <<>>, <<>>)
    ELSE send_error(404, "Not Found", <<>>, <<>>)

\* BaseHTTPRequestHandler.handle_one_request: the request goes to the method
\* do_<command> of the handler; a command without one is answered 501.
handle_one_request(srv, request, test, complete) ==
    IF request.method = "GET" THEN do_GET(srv, request, test)
    ELSE IF request.method = "POST" THEN do_POST(srv, request, test, complete)
    ELSE send_error(501, "Unsupported method", <<>>, <<>>)

\* The members of a request the server reads: a request without a body to read
\* has none.
Normal(request) ==
    IF request.method = "POST" /\ request.path = "/chat"
    THEN IF request.body = "object" THEN request
         ELSE [request EXCEPT !.message = "text", !.session_id = "absent"]
    ELSE [request EXCEPT !.body = "no_length", !.message = "text",
                         !.session_id = "absent"]

\* The server answers a request.
Handle ==
    /\ server.variant \in Variants
    /\ exchange = NoExchange
    /\ \E request \in Requests, test \in InvokeOutcomes,
          complete \in InvokeOutcomes :
          /\ request = Normal(request)
          /\ exchange' = [request |-> request]
                         @@ handle_one_request(server, request, test, complete)
    /\ UNCHANGED <<server, toolVars, agentVars>>

\* The response has been sent; the server waits for the next request.
Respond ==
    /\ exchange # NoExchange
    /\ exchange' = NoExchange
    /\ UNCHANGED <<server, toolVars, agentVars>>

\* ------------------------------------------------------------ the chat agent
\* working_agent.WorkingZoomAgent: an object with a chat_history, whose
\* process_chat_message classifies a chat message by the substrings of its
\* lower-cased text and hands it to a handler, and whose
\* generate_engagement_summary reports on the history and on the participants
\* the engagement tools return for the session 'default'.  The methods are
\* called one at a time, on one object (ProcessChatMessage,
\* GenerateEngagementSummary) or through the entry point invoke, which makes
\* a new object for every call (Invoke).
UpperCase == "ABCDEFGHIJKLMNOPQRSTUVWXYZ"
LowerCase == "abcdefghijklmnopqrstuvwxyz"

\* The lower-case form of one character.
CharLower(c) ==
    IF \E i \in 1..Len(UpperCase) : SubSeq(UpperCase, i, i) = c
    THEN LET i == CHOOSE i \in 1..Len(UpperCase) : SubSeq(UpperCase, i, i) = c
         IN  SubSeq(LowerCase, i, i)
    ELSE c

\* str.lower()
RECURSIVE lower(_)
lower(s) ==
    IF Len(s) = 0 THEN ""
    ELSE CharLower(SubSeq(s, 1, 1)) \o lower(SubSeq(s, 2, Len(s)))

\* sub in s
Contains(sub, s) ==
    \E i \in 0..(Len(s) - Len(sub)) : SubSeq(s, i + 1, i + Len(sub)) = sub

\* any(word in s for word in words)
ContainsAny(words, s) == \E word \in words : Contains(word, s)

\* The words chat messages are made of: the substrings the agent looks for,
\* in lower case or not, and a word that holds none of them.
Words ==
    {"@bot", "question:", "Help", "STUCK", "issue", "login", "access",
     "permission", "error", "deploy", "role", "https", "lab", "hello"}

\* The messages of n words, separated by spaces.
RECURSIVE Sentences(_)
Sentences(n) ==
    IF n = 0 THEN {""}
    ELSE IF n = 1 THEN Words
    ELSE {s \o " " \o w : s \in Sentences(n - 1), w \in Words}

\* The messages of at most n words.
ChatMessages(n) == UNION {Sentences(k) : k \in 0..n}

\* The number of words of a message.
WordCount(message) ==
    IF Len(message) = 0 THEN 0
    ELSE 1 + Cardinality({i \in 1..Len(message) : SubSeq(message, i, i) = " "})

\* The outcomes of the call of the strands Agent.
AgentOutcomes == {"ok", "raise"}

\* What process_chat_message returns for a message that is not for the bot.
None == [kind |-> "None"]

NoTurn == [op |-> "none"]

\* chat_history entries; timestamp is the value datetime.now() returns when the
\* entry is made.
ChatEntry(participant_name, message, timestamp) ==
    [timestamp |-> timestamp, participant |-> participant_name,
     message |-> message, type |-> "chat"]

TechnicalSupportEntry(participant_name, message, response, timestamp) ==
    [timestamp |-> timestamp, participant |-> participant_name,
     issue |-> message, response |-> response, type |-> "technical_support",
     priority |-> "high"]

QaEntry(participant_name, question, response, relevant_content, timestamp) ==
    [timestamp |-> timestamp, participant |-> participant_name,
     question |-> question, response |-> response, type |-> "qa",
     relevant_content |-> relevant_content]

\* The substrings that make a message one for the bot, and those that make a
\* message for the bot a technical issue.
Triggers == {"@bot", "question:", "help", "stuck", "issue"}

TechnicalKeywords ==
    {"login", "access", "permission", "error", "stuck", "deploy"}

\* The chain without its deployment branch.
issue_type_no_deployment(message) ==
    LET text == lower(message)
    IN  IF Contains("login", text) THEN "login"
        ELSE IF ContainsAny({"permission", "access", "iam", "role"}, text)
        THEN "permission"
        ELSE IF ContainsAny({"security", "encrypt", "https", "acl"}, text)
        THEN "security"
        ELSE IF ContainsAny({"setup", "prepare", "lab"}, text) THEN "setup"
        ELSE "general"

\* _handle_technical_issue: "Determine issue type"
issue_type(message) ==
    LET text == lower(message)
    IN  IF Contains("login", text) THEN "login"
        ELSE IF ContainsAny({"permission", "access", "iam", "role"}, text)
        THEN "permission"
        ELSE IF ContainsAny({"security", "encrypt", "https", "acl"}, text)
        THEN "security"
        ELSE IF ContainsAny({"setup", "prepare", "lab"}, text) THEN "setup"
        ELSE IF ContainsAny({"deploy", "error", "stuck"}, text)
        THEN "deployment"
        ELSE "general"

\* get_troubleshooting_steps(issue_type, message)['steps'], as
\* workshop_mcp_server_production defines it (the agent imports the function
\* of that name from workshop_mcp_server): the guide has five steps for four
\* issue types and one step for any other.
get_troubleshooting_steps(type) ==
    IF type = "login"
    THEN <<"Verify AWS account ID is correct",
           "Check IAM user/role permissions",
           "Clear browser cache and cookies",
           "Try incognito/private browsing mode",
           "Ensure MFA is properly configured">>
    ELSE IF type = "permission"
    THEN <<"Confirm you're in the correct AWS region",
           "Verify IAM policies are attached to your user/role",
           "Check service-specific permissions (S3, IAM, GuardDuty)",
           "Ensure resource-based policies allow access",
           "Contact facilitator if issue persists">>
    ELSE IF type = "security"
    THEN <<"Check S3 bucket policy configuration",
           "Verify Block Public Access settings",
           "Ensure HTTPS-only access is configured",
           "Validate SSE-KMS encryption settings",
           "Review Access Control Lists (ACLs)">>
    ELSE IF type = "setup"
    THEN <<"Verify workshop prerequisites are met",
           "Check CloudFormation stack deployment status",
           "Ensure required IAM roles are created",
           "Validate S3 bucket creation and configuration",
           "Test GuardDuty detector setup">>
    ELSE <<"Contact facilitator for assistance with this specific issue">>

\* workshop_loader.get_troubleshooting_context(issue_type)
get_troubleshooting_context(type) ==
    IF type = "permission"
    THEN <<"Configure S3 Access Grants for IAM user",
           "Attach IAM Role to EC2 Instance",
           "Restrict Access to an S3 VPC Endpoint">>
    ELSE IF type = "access"
    THEN <<"Configure S3 Block Public Access", "Block Public ACLs",
           "Disable S3 ACLs">>
    ELSE IF type = "security"
    THEN <<"Require HTTPS", "Require SSE-KMS Encryption",
           "S3 Security Best Practices">>
    ELSE IF type = "setup"
    THEN <<"Prepare Your Lab", "S3 Access Grants Lab - Initial Setup">>
    ELSE <<>>

\* What a call of the agent comes to: the chat_history afterwards, the
\* handler the message went to, and the value returned or the exception that
\* left the call.
Outcome(history, handler, result) ==
    [chat_history |-> history, handler |-> handler, result |-> result]

\* The values datetime.now() returns within process_chat_message when the
\* clock has shown t: logged, for the 'chat' entry, and handled, for the entry
\* of the handler.
ChatClocks(t) == [logged : Readings(t), handled : Readings(t)]

\* _handle_technical_issue: the response names the participant and the issue
\* type and lists the steps and the workshop materials; the escalation is
\* logged.
_handle_technical_issue(history, participant_name, message, timestamp) ==
    LET type == issue_type(message)
        response == [to |-> participant_name, issue_type |-> type,
                     steps |-> get_troubleshooting_steps(type),
                     materials |-> get_troubleshooting_context(type)]
    IN  Outcome(Append(history,
                       TechnicalSupportEntry(participant_name, message,
                                             response, timestamp)),
                "_handle_technical_issue", response)

\* _handle_general_question: get_relevant_content raises KeyError when the
\* content directory was not found; the Agent answers the prompt or raises;
\* the answer (response.message) is logged and returned.  Which catalog
\* entries the question matches is left out of the model.
_handle_general_question(history, found, participant_name, question, complete, timestamp) ==
    IF ~found
    THEN Outcome(history, "_handle_general_question",
                 [raised |-> Exc("KeyError", "labs")])
    ELSE IF complete = "raise"
    THEN Outcome(history, "_handle_general_question",
                 [raised |-> Exc("Error", "Agent")])
    ELSE Outcome(Append(history,
                        QaEntry(participant_name, question, "answer",
                                "relevant content", timestamp)),
                 "_handle_general_question", [message |-> "answer"])

\* The technical keywords looked for before the triggers.
process_chat_message_technical_first(history, found, participant_name, message, complete, c) ==
    LET logged == Append(history,
                         ChatEntry(participant_name, message, c.logged))
        text == lower(message)
    IN  IF ContainsAny(TechnicalKeywords, text)
        THEN _handle_technical_issue(logged, participant_name, message,
                                     c.handled)
        ELSE IF ContainsAny(Triggers, text)
        THEN _handle_general_question(logged, found, participant_name,
                                      message, complete, c.handled)
        ELSE Outcome(logged, "none", None)

\* WorkingZoomAgent.process_chat_message
process_chat_message(history, found, participant_name, message, complete, c) ==
    LET logged == Append(history,
                         ChatEntry(participant_name, message, c.logged))
        text == lower(message)
    IN  IF ContainsAny(Triggers, text)
        THEN IF ContainsAny(TechnicalKeywords, text)
             THEN _handle_technical_issue(logged, participant_name, message,
                                          c.handled)
             ELSE _handle_general_question(logged, found, participant_name,
                                           message, complete, c.handled)
        ELSE Outcome(logged, "none", None)

\* The inputs of a call that the call uses: the Agent is called, and the clock
\* read a second time, only when the handler gets that far.
Used(r, history, found, complete, c) ==
    /\ complete = "raise" => r.handler = "_handle_general_question" /\ found
    /\ Len(r.chat_history) < Len(history) + 2 => c.handled = c.logged

\* The words of the messages handled so far, an empty message counting as one.
RECURSIVE WordsUsed(_)
WordsUsed(history) ==
    IF history = <<>> THEN 0
    ELSE WordsUsed(Tail(history))
         + (IF Head(history).type = "chat"
            THEN WordCount(Head(history).message) + 1 ELSE 0)

\* process_chat_message called on the agent object in use.  The messages of
\* one behaviour have a bounded number of words.
ProcessChatMessage ==
    /\ WordsUsed(chat_history) <= MaxWords
    /\ \E participant_name \in Participants,
          message \in ChatMessages(MaxWords - WordsUsed(chat_history)),
          complete \in AgentOutcomes,
          c \in ChatClocks(now) :
          LET r == process_chat_message(chat_history, loaded, participant_name,
                                        message, complete, c)
          IN  /\ Used(r, chat_history, loaded, complete, c)
              /\ chat_history' = r.chat_history
              /\ turn' = [op |-> "process_chat_message",
                          participant |-> participant_name,
                          message |-> message, handler |-> r.handler,
                          result |-> r.result]
              /\ now' = c.handled
    /\ UNCHANGED <<loaded, times, tableExists, ddb, logGroup, logStreams, cwl,
                   faults, calls, last, webVars>>

\* The session the agent reads: it calls the engagement tools without a
\* session_id.
DefaultSession == "default"

\* The entries of the history of a type.
EntriesOf(history, type) ==
    SelectSeq(history, LAMBDA entry : entry.type = type)

\* issue_types after the loop over the technical_support entries.
RECURSIVE CommonIssues(_, _)
CommonIssues(issue_types, entries) ==
    IF entries = <<>> THEN issue_types
    ELSE LET issue == lower(Head(entries).issue)
             key == IF Contains("login", issue) THEN "login"
                    ELSE IF Contains("permission", issue) THEN "permission"
                    ELSE "other"
         IN  CommonIssues(DictInc(issue_types, key), Tail(entries))

\* The lines under "Recommendations:": the three threshold rules, then the
\* line added when the summary does not end with the heading.
summary_recommendations(technical_issues, questions_asked) ==
    LET fired ==
            (IF technical_issues > 3
             THEN <<"Consider live demo of common troubleshooting steps">>
             ELSE <<>>)
            \o (IF questions_asked > 10
                THEN <<"High engagement - consider extending Q&A time">>
                ELSE <<>>)
            \o (IF technical_issues = 0 /\ questions_asked < 3
                THEN <<"Low interaction - encourage questions or add polls">>
                ELSE <<>>)
        ends_with_heading == fired = <<>>
    IN  IF ~ends_with_heading
        THEN Append(fired, "Workshop running smoothly!")
        ELSE fired

\* participants_data['participants'][:5]
Shown == 5

\* WorkingZoomAgent.generate_engagement_summary: the sections of the text.
generate_engagement_summary(history, participants_data) ==
    LET total_interactions == Len(history)
        unique_participants ==
            Cardinality({history[i].participant : i \in 1..Len(history)})
        questions_asked == Len(EntriesOf(history, "qa"))
        technical_issues == Len(EntriesOf(history, "technical_support"))
        shown == SubSeq(participants_data.participants, 1,
                        Min(Shown, Len(participants_data.participants)))
    IN  [active_participants |-> participants_data.active_count,
         total_interactions |-> total_interactions,
         questions_answered |-> questions_asked,
         technical_issues |-> technical_issues,
         engagement_score |->
            Min(100, (questions_asked * 10) + (unique_participants * 5)
                        + (total_interactions * 2)),
         current_participants |->
            [i \in 1..Len(shown) |->
                [name |-> shown[i].name,
                 status |-> IF shown[i].status = "active" THEN "ACTIVE"
                            ELSE "AWAY",
                 activities |-> shown[i].activity_count]],
         common_issues |->
            IF technical_issues > 0
            THEN CommonIssues(<<>>, EntriesOf(history, "technical_support"))
            ELSE <<>>,
         recommendations |->
            summary_recommendations(technical_issues, questions_asked)]

\* generate_engagement_summary called on the agent object in use: the two
\* reads may create the table; the report of get_engagement_analytics is
\* parsed and not used.
GenerateEngagementSummary ==
    /\ \E pe \in ReadEnvsWhen(tableExists, DefaultSession, now) :
          \E summary \in {generate_engagement_summary(chat_history,
                               ParticipantsOf(ddb, cwl, DefaultSession, pe))} :
              \E ae \in ReadEnvsWhen(TableAfter(pe.load, pe.create),
                                     DefaultSession, pe.clock) :
                  /\ turn' = [op |-> "generate_engagement_summary",
                              result |-> summary]
                  /\ tableExists' = (\/ TableAfter(pe.load, pe.create)
                                     \/ TableAfter(ae.load, ae.create))
                  /\ now' = ae.clock
    /\ UNCHANGED <<loaded, chat_history, times, ddb, logGroup, logStreams, cwl,
                   faults, calls, last, webVars>>

\* ------------------------------------------------------------------- invoke
\* The payloads of the entry point: an action or none, and for a chat a
\* participant_name, a message and a workshop_title or none of them.
Payloads ==
    {[input |-> input] :
        input \in UNION {
            {[x \in {} |-> x]},
            {[action |-> a] : a \in {"chat", "summary", "poll"}},
            {[action |-> "chat", participant_name |-> p, message |-> m] :
                p \in Participants, m \in {"hello", "@bot lab", "STUCK"}},
            {[action |-> a, workshop_title |-> "S3 Security", agenda |-> "Labs"] :
                a \in {"chat", "summary"}},
            {[action |-> "chat", message |-> m, workshop_title |-> "S3 Security"] :
                m \in {"@bot lab", "STUCK"}}}}

\* set_workshop_context: without a title the context is the one of the
\* content loader, whose get_workshop_context raises KeyError when the content
\* directory was not found.
set_workshop_context(found, workshop_title) ==
    IF workshop_title = "AWS Workshop" /\ ~found
    THEN [raised |-> Exc("KeyError", "workshop_title")]
    ELSE [context |-> workshop_title]

\* invoke(payload): a new agent, whose chat_history is empty, handles the
\* action.  e holds the outcomes of the calls made: complete (the Agent), c
\* (the clock within process_chat_message), reads (the store calls of the
\* summary) and clock (the clock when the output is made).  The result is the
\* chat_history of the agent when invoke returns and the output returned.
invoke(payload, found, e) ==
    LET input_data == get(payload, "input", <<>>)
        action == get(input_data, "action", "chat")
        participant_name == get(input_data, "participant_name", "Anonymous")
        message == get(input_data, "message", "")
        workshop_title == get(input_data, "workshop_title", "AWS Workshop")
        context == set_workshop_context(found, workshop_title)
        r == process_chat_message(<<>>, found, participant_name, message,
                                  e.complete, e.c)
        error(exc) == [output |-> [error |-> exc, timestamp |-> e.clock]]
    IN  IF action \notin {"chat", "summary"}
        THEN [chat_history |-> <<>>,
              returned |->
                  [output |-> [error |-> <<"Unknown action", action>>,
                               supported_actions |-> <<"chat", "summary">>]]]
        ELSE IF "raised" \in DOMAIN context
        THEN [chat_history |-> <<>>, returned |-> error(context.raised)]
        ELSE IF action = "chat"
        THEN [chat_history |-> r.chat_history,
              returned |->
                  IF "raised" \in DOMAIN r.result
                  THEN error(r.result.raised)
                  ELSE [output |-> [response |-> r.result,
                                    timestamp |-> e.clock,
                                    agent |-> "zoom-call-agent"]]]
        ELSE [chat_history |-> <<>>,
              returned |->
                  [output |->
                      [summary |->
                          generate_engagement_summary(<<>>,
                              ParticipantsOf(ddb, cwl, DefaultSession,
                                             e.reads.participants)),
                       timestamp |-> e.clock,
                       agent |-> "zoom-call-agent"]]]

\* The calls invoke makes for a payload, and the outcomes they can have.
InvokeEnvs(payload, found) ==
    LET input_data == get(payload, "input", <<>>)
        action == get(input_data, "action", "chat")
        workshop_title == get(input_data, "workshop_title", "AWS Workshop")
        context == set_workshop_context(found, workshop_title)
        none == [complete |-> "ok", c |-> [logged |-> now, handled |-> now],
                 reads |-> <<>>]
    IN  IF action \notin {"chat", "summary"}
        THEN {none @@ [clock |-> now]}
        ELSE IF "raised" \in DOMAIN context
        THEN {none @@ [clock |-> t] : t \in Readings(now)}
        ELSE IF action = "chat"
        THEN UNION {{[complete |-> complete, c |-> c, reads |-> <<>>,
                      clock |-> t] : t \in Readings(c.handled)}
                    : complete \in AgentOutcomes, c \in ChatClocks(now)}
        ELSE UNION {{[complete |-> "ok", c |-> none.c, reads |-> reads,
                      clock |-> t] : t \in Readings(reads.analytics.clock)}
                    : reads \in UNION {
                        {[participants |-> pe, analytics |-> ae] :
                            ae \in ReadEnvsWhen(TableAfter(pe.load, pe.create),
                                                DefaultSession, pe.clock)}
                        : pe \in ReadEnvsWhen(tableExists, DefaultSession,
                                              now)}}

\* The entry point is called with a payload.
Invoke ==
    \E payload \in Payloads :
        \E e \in InvokeEnvs(payload, loaded) :
            LET input_data == get(payload, "input", <<>>)
                r == invoke(payload, loaded, e)
                chat == process_chat_message(<<>>, loaded,
                            get(input_data, "participant_name", "Anonymous"),
                            get(input_data, "message", ""), e.complete, e.c)
            IN  /\ Used(chat, <<>>, loaded, e.complete, e.c)
                /\ chat_history' = r.chat_history
                /\ turn' = [op |-> "invoke", payload |-> payload,
                            result |-> r.returned]
                /\ tableExists' =
                      IF "analytics" \in DOMAIN e.reads
                      THEN \/ TableAfter(e.reads.participants.load,
                                         e.reads.participants.create)
                           \/ TableAfter(e.reads.analytics.load,
                                         e.reads.analytics.create)
                      ELSE tableExists
                /\ now' = e.clock
                /\ UNCHANGED <<loaded, times, ddb, logGroup, logStreams, cwl,
                               faults, calls, last, webVars>>

\* No chat agent runs next to the engagement tools and the chat servers.
NoAgent ==
    /\ loaded = FALSE
    /\ chat_history = <<>>
    /\ turn = NoTurn

\* No chat server runs next to the engagement tools.
NoServer ==
    /\ server = [variant |-> "none"]
    /\ exchange = NoExchange

\* The stores of a fresh deployment; the clock shows 0 or MaxTime, in any order.
EmptyStores ==
    /\ now = 0
    /\ times = {0, MaxTime}
    /\ ddb = {}
    /\ logGroup = FALSE
    /\ logStreams = {}
    /\ cwl = [s \in Sessions |-> <<>>]
    /\ calls = <<>>
    /\ last = NoCall

Init == EmptyStores /\ tableExists \in BOOLEAN /\ faults = TRUE /\ NoServer /\ NoAgent

Next == Tick \/ Track \/ GetParticipants \/ GetEngagementAnalytics \/ Return

\* Every behaviour: calls to the stores may fail at any time.
Spec == Init /\ [][Next]_vars

\* The behaviours in which the table is provisioned and no call to the stores
\* fails.
InitReliable ==
    EmptyStores /\ tableExists = TRUE /\ faults = FALSE /\ NoServer /\ NoAgent

SpecReliable == InitReliable /\ [][Next]_vars

\* The reads of a session that earlier runs of the server recorded: n records
\* of session "s1" by k participants, the first q of them questions and the
\* rest chat messages, held by the table or by the log stream.  The
\* participants made their records in turn (Recorded), or each made one and the
\* one who came last made all the others (RecordedLate).  The log stream of a
\* session of one participant may hold an event of another writer after them.
Roster == <<"Alice", "Bob", "Carol", "Dave", "Erin", "Frank", "Grace",
            "Heidi", "Ivan", "Judy", "Mallory", "Niaj">>

Recorded(n, k, q) ==
    {[timestamp |-> i, participant |-> Roster[(i % k) + 1],
      activity |-> IF i < q THEN "question" ELSE "chat_message",
      details |-> "", session_id |-> "s1"] : i \in 0..(n - 1)}

RecordedLate(n, k, q) ==
    {[timestamp |-> i, participant |-> Roster[IF i < k THEN i + 1 ELSE k],
      activity |-> IF i < q THEN "question" ELSE "chat_message",
      details |-> "", session_id |-> "s1"] : i \in 0..(n - 1)}

EventsOf(items) ==
    [i \in 1..Len(items) |->
        [timestamp |-> items[i].timestamp, message |-> json_dumps(items[i])]]

\* The log events of a stream that another writer than
\* track_participant_activity made at time t: none, a text that is not JSON,
\* an object without 'participant', an object without 'activity'.
Foreign(t) ==
    {<<>>,
     <<[timestamp |-> t, message |-> << <<"START RequestId">> >>]>>,
     <<[timestamp |-> t,
        message |-> << <<"timestamp", t>>, <<"activity", "question">> >>]>>,
     <<[timestamp |-> t,
        message |-> << <<"timestamp", t>>, <<"participant", "Alice">> >>]>>}

InitReport ==
    \E n \in 0..MaxRecords :
        \E k \in 1..(IF n = 0 THEN 1 ELSE Min(n, Len(Roster))),
           q \in {0, n \div 2, n},
           store \in {"DynamoDB", "CloudWatch Logs"} :
          \E records \in {Recorded(n, k, q), RecordedLate(n, k, q)},
             foreign \in (IF store = "CloudWatch Logs" /\ k = 1 /\ q = n
                          THEN Foreign(n) ELSE {<<>>}) :
            /\ now = MaxRecords
            /\ times = {now}
            /\ tableExists = (store = "DynamoDB")
            /\ ddb = IF store = "DynamoDB" THEN records ELSE {}
            /\ logGroup = (store = "CloudWatch Logs")
            /\ logStreams = IF store = "CloudWatch Logs" THEN {"s1"} ELSE {}
            /\ cwl = [s \in Sessions |->
                        IF store = "CloudWatch Logs" /\ s = "s1"
                        THEN EventsOf(ByTimestamp(records)) \o foreign
                        ELSE <<>>]
            /\ faults = TRUE
            /\ calls = <<>>
            /\ last = NoCall
            /\ NoServer /\ NoAgent

NextReport == GetParticipants \/ GetEngagementAnalytics \/ Return

SpecReport == InitReport /\ [][NextReport]_vars

\* main(): WorkshopHandler.initialize() builds the agent.  The production
\* agent has a client (boto3.client raising ends the process) and a content
\* loader that found the workshop content directory or not; the debug agent
\* keeps going without a client when boto3.client raised.
InitWeb ==
    /\ EmptyStores
    /\ tableExists = FALSE
    /\ faults = FALSE
    /\ server \in [variant : Variants, client : BOOLEAN, content : BOOLEAN]
    /\ server.variant = "production" => server.client
    /\ server.variant = "debug" => server.content
    /\ server.variant = "server" => server.client /\ server.content
    /\ exchange = NoExchange
    /\ NoAgent

NextWeb == Handle \/ Respond

SpecWeb == InitWeb /\ [][NextWeb]_vars

\* The scenario of a workshop session: six questions tracked for Alice, then
\* eleven chat messages tracked for Bob, all in session "s1", on a provisioned
\* table with no failing call.  The clock advances between two calls, except
\* that a bounded number of calls read the value the call before them read.
Scenario ==
    [i \in 1..17 |->
        IF i <= 6 THEN [participant |-> "Alice", activity |-> "question"]
        ELSE [participant |-> "Bob", activity |-> "chat_message"]]

\* The calls made so far that read the clock value of the call before them.
Collisions ==
    Cardinality({i \in 2..Len(calls) :
                    calls[i].timestamp = calls[i - 1].timestamp})

ScenarioTick ==
    /\ Idle
    /\ Len(calls) < Len(Scenario)
    /\ IF calls = <<>> THEN FALSE ELSE calls[Len(calls)].timestamp = now
    /\ now' = now + 1
    /\ UNCHANGED <<times, tableExists, ddb, logGroup, logStreams, cwl, faults,
                   calls, last,
                   webVars, agentVars>>

ScenarioTrack ==
    /\ Len(calls) < Len(Scenario)
    /\ IF calls = <<>> THEN TRUE
       ELSE calls[Len(calls)].timestamp < now \/ Collisions < MaxCollisions
    /\ LET c == Scenario[Len(calls) + 1]
       IN  \E e \in TrackEnvs("s1") :
               track_participant_activity(c.participant, c.activity, "", "s1", e)

NextScenario ==
    ScenarioTick \/ ScenarioTrack \/ GetEngagementAnalytics \/ Return

\* The scenario is run on a provisioned table, no call to the stores fails, and
\* the clock shows no other values than the ones ScenarioTick gives it.
InitScenario ==
    /\ now = 0
    /\ times = {}
    /\ ddb = {}
    /\ logGroup = FALSE
    /\ logStreams = {}
    /\ cwl = [s \in Sessions |-> <<>>]
    /\ calls = <<>>
    /\ last = NoCall
    /\ tableExists = TRUE
    /\ faults = FALSE
    /\ NoServer /\ NoAgent

SpecScenario == InitScenario /\ [][NextScenario]_vars

\* The records of a host whose clock is ahead by a number of seconds.
Ahead(records, seconds) ==
    {[r EXCEPT !.timestamp = @ + seconds] : r \in records}

\* The statistics of a session that earlier runs of the server recorded: up
\* to MaxStatsRecords records of session "s1", held by the table or by the log
\* stream, of one participant or of as many as there are records, read a
\* minute after the first record, or read by a host whose clock is a minute
\* behind the clock of the host that made the records (datetime.now() is the
\* local time of the host).  While they are read the clock shows the value it
\* has at first or one up to MaxTime seconds later, in any order.  Calls to
\* the stores may fail.
InitStats ==
    \E n \in 0..MaxStatsRecords :
        \E k \in {1, IF n = 0 THEN 1 ELSE n},
           ahead \in {0, SecondsPerMinute},
           store \in {"DynamoDB", "CloudWatch Logs"} :
          \E records \in {Ahead(Recorded(n, k, (n + 1) \div 2), ahead)} :
            /\ now = (IF ahead = 0 THEN SecondsPerMinute ELSE 0)
            /\ times = {now, now + MaxTime}
            /\ tableExists \in (IF store = "DynamoDB" THEN {TRUE} ELSE BOOLEAN)
            /\ ddb = IF store = "DynamoDB" THEN records ELSE {}
            /\ logGroup = (store = "CloudWatch Logs")
            /\ logStreams = IF store = "CloudWatch Logs" THEN {"s1"} ELSE {}
            /\ cwl = [s \in Sessions |->
                        IF store = "CloudWatch Logs" /\ s = "s1"
                        THEN EventsOf(ByTimestamp(records))
                        ELSE <<>>]
            /\ faults = TRUE
            /\ calls = <<>>
            /\ last = NoCall
            /\ NoServer /\ NoAgent

NextStats == GetWorkshopStats \/ Return

SpecStats == InitStats /\ [][NextStats]_vars

\* WorkingZoomAgent(): the history is empty; the content loader of the module
\* found the workshop content directory or not.  The clock advances by a
\* second at most, or goes back by one, while the messages are handled.
InitAgent ==
    /\ now = 0
    /\ times = {0, 1}
    /\ ddb = {}
    /\ logGroup = FALSE
    /\ logStreams = {}
    /\ cwl = [s \in Sessions |-> <<>>]
    /\ calls = <<>>
    /\ last = NoCall
    /\ tableExists = FALSE
    /\ faults = FALSE
    /\ NoServer
    /\ loaded \in BOOLEAN
    /\ chat_history = <<>>
    /\ turn = NoTurn

NextAgent == ProcessChatMessage

SpecAgent == InitAgent /\ [][NextAgent]_vars

\* The chat_history of an agent that found the workshop content and answered
\* q questions of Alice and t technical issues of Bob, after a message of
\* Alice that was not for the bot or without one.
Handled(history, participant_name, message) ==
    process_chat_message(history, TRUE, participant_name, message, "ok",
                         [logged |-> 0, handled |-> 0]).chat_history

RECURSIVE History(_, _, _)
History(q, t, greeted) ==
    IF q > 0 THEN Handled(History(q - 1, t, greeted), "Alice", "@bot lab")
    ELSE IF t > 0 THEN Handled(History(0, t - 1, greeted), "Bob", "Help error")
    ELSE IF greeted THEN Handled(<<>>, "Alice", "hello")
    ELSE <<>>

\* The facilitator asks for the summary of a workshop: the agent has handled
\* up to MaxQuestions questions and MaxIssues technical issues, and the table
\* holds no record of the session 'default' or the records of one participant
\* more than the summary lists.  Calls to the stores may fail.
InitSummary ==
    \E q \in 0..MaxQuestions, t \in 0..MaxIssues, greeted \in BOOLEAN,
       n \in {0, Shown + 1} :
        /\ now = n
        /\ times = now..(now + MaxTime)
        /\ ddb = {[timestamp |-> i - 1, participant |-> Roster[i],
                    activity |-> "question", details |-> "",
                    session_id |-> DefaultSession] : i \in 1..n}
        /\ tableExists \in (IF n > 0 THEN {TRUE} ELSE BOOLEAN)
        /\ logGroup = FALSE
        /\ logStreams = {}
        /\ cwl = [s \in Sessions |-> <<>>]
        /\ calls = <<>>
        /\ last = NoCall
        /\ faults = TRUE
        /\ NoServer
        /\ loaded = TRUE
        /\ chat_history = History(q, t, greeted)
        /\ turn = NoTurn

NextSummary == GenerateEngagementSummary

SpecSummary == InitSummary /\ [][NextSummary]_vars

\* The entry point is called again and again; the content loader of the
\* module found the workshop content directory or not.  Calls to the stores
\* may fail.
InitInvoke ==
    /\ EmptyStores
    /\ tableExists \in BOOLEAN
    /\ faults = TRUE
    /\ NoServer
    /\ loaded \in BOOLEAN
    /\ chat_history = <<>>
    /\ turn = NoTurn

NextInvoke == Invoke

SpecInvoke == InitInvoke /\ [][NextInvoke]_vars

\* The server restarted on a deployment on which an earlier run recorded
\* session "s1": a record in the table (made while the table was available), a
\* record in the log stream (made while it was not), both or none.  The clock
\* reads the value the earlier record was made at, or a later one.  Calls to
\* the stores may fail.
Earlier(session_id) ==
    [timestamp |-> 0, participant |-> "Alice", activity |-> "question",
     details |-> "", session_id |-> session_id]

InitRestart ==
    \E inTable \in BOOLEAN, inLog \in BOOLEAN :
        /\ now \in {0, 1}
        /\ times = {0, 1}
        /\ ddb = IF inTable THEN {Earlier("s1")} ELSE {}
        /\ tableExists \in (IF inTable THEN {TRUE} ELSE BOOLEAN)
        /\ logGroup = inLog
        /\ logStreams = IF inLog THEN {"s1"} ELSE {}
        /\ cwl = [s \in Sessions |->
                    IF inLog /\ s = "s1" THEN EventsOf(<<Earlier("s1")>>)
                    ELSE <<>>]
        /\ faults = TRUE
        /\ calls = <<>>
        /\ last = NoCall
        /\ NoServer /\ NoAgent

NextRestart == Track \/ GetParticipants \/ GetEngagementAnalytics \/ Return

SpecRestart == InitRestart /\ [][NextRestart]_vars

\* ===================================================================== claims
\* The successful track calls made for a session with a participant name.
TrackedCalls(s, p) ==
    {i \in 1..Len(calls) :
        calls[i].session_id = s /\ calls[i].participant = p /\ calls[i].tracked}

\* The indices of the summaries of a get_participants result with a name.
SummariesOf(r, p) ==
    {i \in 1..Len(r.participants) : r.participants[i].name = p}

\* The number of records the two stores hold for a session.
RecordCount(items, streams, s) ==
    Cardinality({i \in items : i.session_id = s}) + Len(streams[s])

IsPrefix(q, r) == Len(q) <= Len(r) /\ SubSeq(r, 1, Len(q)) = q

\* A step that is a track call reporting success.
TrackedStep ==
    /\ calls' # calls
    /\ last'.op = "track"
    /\ Tracked(last'.result)

\* C1: after any sequence of track calls in one session, get_participants for
\* that session returns exactly one summary per distinct participant name
\* tracked, and each summary's activity_count is the number of track calls made
\* with that name in that session.
C1_OneSummaryPerName ==
    (last.op = "get_participants" /\ "error" \notin DOMAIN last.result) =>
        \A p \in Participants :
            LET n == Cardinality(TrackedCalls(last.session_id, p))
                sm == SummariesOf(last.result, p)
            IN  /\ n = 0 => sm = {}
                /\ n > 0 => /\ Cardinality(sm) = 1
                            /\ \A i \in sm :
                                  last.result.participants[i].activity_count = n

\* The primary store did not take the write of a track call: the table could
\* not be obtained, or put_item failed.
PrimaryUnavailable(e) ==
    \/ e.load = "Error"
    \/ e.load = "ClientError" /\ e.create # "ok"
    \/ e.put \in {"ClientError", "Error"}

\* A call to the secondary store failed.
SecondaryFailed(e) ==
    \/ e.mkgroup = "Error"
    \/ e.mkstream = "Error"
    \/ e.putlog \in {"ClientError", "Error"}

\* C2: when the primary store is unavailable at a track call, track persists
\* the record to the CloudWatch log stream and returns success naming that
\* backend; primary unavailability alone never yields tracked=false.
C2_FallbackWhenPrimaryUnavailable ==
    (last.op = "track" /\ PrimaryUnavailable(last.env)
        /\ ~SecondaryFailed(last.env)) =>
        /\ Tracked(last.result)
        /\ last.result.storage = "CloudWatch Logs"

\* C3: every track call that returns success appends exactly one new durable
\* record: the number of records stored for its session grows by exactly one,
\* also when two calls for the session read the same timestamp.
C3_OneRecordPerTrack ==
    [][TrackedStep =>
          RecordCount(ddb', cwl', last'.session_id)
              = RecordCount(ddb, cwl, last'.session_id) + 1]_vars

\* C4: a stored activity record is never mutated and never deleted by a later
\* operation: every record present stays present and unchanged.
C4_RecordsImmutable ==
    [][/\ \A i \in ddb : i \in ddb'
       /\ \A s \in Sessions : IsPrefix(cwl[s], cwl'[s])]_vars

\* The timestamps of the successful track calls of a session with a name.
TrackedTimes(s, p) == {calls[i].timestamp : i \in TrackedCalls(s, p)}

\* C5: in every summary get_participants returns, join_time is the timestamp
\* of the participant's chronologically first tracked record in the session
\* and last_activity that of the latest, so join_time <= last_activity.
C5_JoinFirstLastLatest ==
    (last.op = "get_participants" /\ "error" \notin DOMAIN last.result) =>
        \A i \in 1..Len(last.result.participants) :
            LET sm == last.result.participants[i]
                ts == TrackedTimes(last.session_id, sm.name)
            IN  /\ sm.join_time \in ts
                /\ sm.last_activity \in ts
                /\ \A x \in ts : sm.join_time <= x /\ x <= sm.last_activity
                /\ sm.join_time <= sm.last_activity

\* C6: track never raises to its caller: whatever the outcomes of the store
\* calls, it returns a result, either success naming the backend that took the
\* write or tracked=false with a description of the exception raised.
C6_TrackNeverRaises ==
    last.op = "track" =>
        /\ "raised" \notin DOMAIN last.result
        /\ "tracked" \in DOMAIN last.result
        /\ last.result.tracked =>
              /\ last.result.storage \in {"DynamoDB", "CloudWatch Logs"}
              /\ "error" \notin DOMAIN last.result
        /\ ~last.result.tracked =>
              /\ "error" \in DOMAIN last.result
              /\ last.result.error[1] = "Failed to track activity"
              /\ last.result.error[2].type \in {"ClientError", "Error"}

\* A track call in which an exception that is not a ClientError left
\* get_dynamodb_table, and the caller got tracked=false.
C6_Witness ==
    /\ last.op = "track"
    /\ last.env.load = "Error"
    /\ "tracked" \in DOMAIN last.result
    /\ ~last.result.tracked
    /\ last.result.error[2] = Exc("Error", "load")

\* The store read of a read operation failed: get_dynamodb_table raised, the
\* query raised, or get_log_events raised.
ReadFailed(e) ==
    \/ e.load = "Error"
    \/ e.create = "Error"
    \/ e.query \in {"ClientError", "Error"}
    \/ e.getlog \in {"ClientError", "Error"}

\* The failure of the read is a ClientError of get_log_events, which the
\* fallback branch takes for "no data available".
LogReadSwallowed(e) == e.getlog = "ClientError"

NamesRead(s, e) ==
    IF e.query = "ok" THEN {i.participant : i \in {j \in ddb : j.session_id = s}}
    ELSE IF e.getlog = "ok"
    THEN {DictGet(cwl[s][i].message, "participant", "unknown") :
             i \in {j \in 1..Len(cwl[s]) : IsJson(cwl[s][j].message)}}
    ELSE {}

\* The number of records a read operation read for a session: the items of
\* the table, or the events of the log stream that hold a JSON object.
CountRead(s, e) ==
    IF e.query = "ok" THEN Cardinality({j \in ddb : j.session_id = s})
    ELSE IF e.getlog = "ok"
    THEN Cardinality({j \in 1..Len(cwl[s]) : IsJson(cwl[s][j].message)})
    ELSE 0

\* C9: in every report of get_engagement_analytics, engagement_score =
\* min(100, total_activities*2 + unique_participants*10), where
\* total_activities is the number of records read for the session and
\* unique_participants the number of distinct participant names among them;
\* the score is an integer in [0, 100].
C9_ScoreFormula ==
    last.op = "get_engagement_analytics" =>
        LET r == last.result
            raw == r.total_activities * 2 + r.unique_participants * 10
        IN  /\ r.engagement_score = (IF raw > 100 THEN 100 ELSE raw)
            /\ r.engagement_score \in 0..100
            /\ "error" \notin DOMAIN r =>
                  /\ r.total_activities = CountRead(last.session_id, last.env)
                  /\ r.unique_participants
                        = Cardinality(NamesRead(last.session_id, last.env))

\* A report of a session whose records and participants weigh more than 100:
\* the score is capped.
C9_Witness ==
    /\ last.op = "get_engagement_analytics"
    /\ "error" \notin DOMAIN last.result
    /\ last.result.total_activities * 2
          + last.result.unique_participants * 10 > 100
    /\ last.result.engagement_score = 100

\* The outcomes of a read in which every call succeeds.
ReliableRead ==
    [load |-> "ok", create |-> Unused, query |-> "ok", getlog |-> Unused,
     clock |-> 0]

\* The score get_engagement_analytics returns for a session when every call
\* succeeds.
ScoreNow(s) == AnalyticsOf(ddb, cwl, s, ReliableRead).engagement_score

\* C10: for one session, the engagement_score returned by successive
\* get_engagement_analytics calls never decreases as further track calls
\* succeed between them, and never exceeds 100.
C10_ScoreNeverDecreases ==
    [][(TrackedStep /\ tableExists) =>
          \A s \in Sessions : ScoreNow(s) <= ScoreNow(s)' /\ ScoreNow(s)' <= 100]_vars

\* The records a read operation read for a session, in the order read.
RecordsRead(s, e) ==
    IF e.query = "ok" THEN query(ddb, s)
    ELSE IF e.getlog = "ok" THEN DecodeEvents(cwl[s])
    ELSE <<>>

\* The participant of a record: a record without the member counts for
\* 'unknown'.
Who(record) == get(record, "participant", "unknown")

\* The number of records of a sequence made by a participant, and the position
\* of the first of them.
CountOf(records, p) ==
    Cardinality({i \in 1..Len(records) : Who(records[i]) = p})

FirstSeen(records, p) ==
    CHOOSE i \in 1..Len(records) :
        /\ Who(records[i]) = p
        /\ \A j \in 1..(i - 1) : Who(records[j]) # p

\* p ranks before p2: more records, or as many and seen first.
RanksBefore(records, p, p2) ==
    \/ CountOf(records, p) > CountOf(records, p2)
    \/ /\ CountOf(records, p) = CountOf(records, p2)
       /\ FirstSeen(records, p) < FirstSeen(records, p2)

\* A regular report of get_engagement_analytics is being handed to the caller.
Reported ==
    /\ last.op = "get_engagement_analytics"
    /\ "error" \notin DOMAIN last.result

\* C11: top_participants in every report has at most 5 entries, sorted by
\* per-participant record count descending, with ties broken by first-seen
\* order in the session's record sequence; it holds the 5 highest-ranked
\* participants under that order (all of them when there are fewer), each
\* with its record count.
C11_TopParticipants ==
    Reported =>
        LET tp == last.result.top_participants
            records == RecordsRead(last.session_id, last.env)
            names == {Who(records[i]) : i \in 1..Len(records)}
            listed == {tp[i][1] : i \in 1..Len(tp)}
        IN  /\ Len(tp) <= 5
            /\ Len(tp) = (IF Cardinality(names) < 5 THEN Cardinality(names) ELSE 5)
            /\ listed \subseteq names
            /\ \A i \in 1..Len(tp) : tp[i][2] = CountOf(records, tp[i][1])
            /\ \A i, j \in 1..Len(tp) :
                  i < j => RanksBefore(records, tp[i][1], tp[j][1])
            /\ \A p \in names \ listed :
                  \A i \in 1..Len(tp) : RanksBefore(records, tp[i][1], p)

\* A report of a session with more than 5 participants in which the most
\* active participant was not the first seen, two listed participants tie,
\* and a participant is cut.
C11_Witness ==
    /\ Reported
    /\ last.result.unique_participants > 5
    /\ Len(last.result.top_participants) = 5
    /\ last.result.top_participants[1][1] # "Alice"
    /\ last.result.top_participants[1][2] > last.result.top_participants[2][2]
    /\ last.result.top_participants[2][2] = last.result.top_participants[3][2]
    /\ last.result.top_participants[2][1] = "Alice"

\* The order in which the rules add their lines.
RuleOrder ==
    <<HighEngagement, LowEngagement, ManyQuestions, FewQuestions, GoodChat,
      MoreChat>>

\* C12: the recommendations list is determined by (engagement_score,
\* question_count, chat_count) through three independent rules, in this
\* order, each adding 0 or 1 line: score > 70 gives the high-engagement line,
\* score < 30 the low-engagement line; question_count > 5 the extend-Q&A
\* line, question_count < 2 the prompt-for-questions line; chat_count > 10
\* the good-chat line, otherwise the encourage-chat line.  No rule's outcome
\* suppresses another rule.
C12_IndependentRules ==
    Reported =>
        LET r == last.result
            lines == {r.recommendations[i] : i \in 1..Len(r.recommendations)}
            score == r.engagement_score
            question_count == DictGet(r.activity_breakdown, "question", 0)
            chat_count == DictGet(r.activity_breakdown, "chat_message", 0)
        IN  /\ (HighEngagement \in lines) <=> (score > 70)
            /\ (LowEngagement \in lines) <=> (score < 30)
            /\ (ManyQuestions \in lines) <=> (question_count > 5)
            /\ (FewQuestions \in lines) <=> (question_count < 2)
            /\ (GoodChat \in lines) <=> (chat_count > 10)
            /\ (MoreChat \in lines) <=> (chat_count <= 10)
            /\ r.recommendations = SelectSeq(RuleOrder, LAMBDA x : x \in lines)

\* A report in which every rule adds a line, none of them the line of an
\* empty session's first two rules: high engagement, many questions, and the
\* encourage-chat line.
C12_Witness ==
    /\ Reported
    /\ last.result.recommendations = <<HighEngagement, ManyQuestions, MoreChat>>

\* C13: get_engagement_analytics on a session with no records returns
\* engagement_score = 0, total_activities = 0, unique_participants = 0, and
\* the low-engagement, prompt-for-questions and encourage-chat
\* recommendations.
C13_EmptySession ==
    (Reported /\ RecordCount(ddb, cwl, last.session_id) = 0) =>
        /\ last.result.engagement_score = 0
        /\ last.result.total_activities = 0
        /\ last.result.unique_participants = 0
        /\ last.result.activity_breakdown = <<>>
        /\ last.result.top_participants = <<>>
        /\ last.result.recommendations
              = <<LowEngagement, FewQuestions, MoreChat>>

\* A report of a session with no records, read from the table.
C13_Witness ==
    /\ Reported
    /\ last.env.query = "ok"
    /\ RecordCount(ddb, cwl, last.session_id) = 0
    /\ last.result.recommendations = <<LowEngagement, FewQuestions, MoreChat>>

\* The scenario has been played: all its calls were made and reported success.
ScenarioTracked ==
    /\ Len(calls) = Len(Scenario)
    /\ \A i \in 1..Len(calls) : calls[i].tracked /\ calls[i].session_id = "s1"
    /\ CountOf(calls, "Alice") = 6
    /\ CountOf(calls, "Bob") = 11

\* The lines of a report's recommendations.
Lines(r) == {r.recommendations[i] : i \in 1..Len(r.recommendations)}

\* C14: after tracking 6 'question' records for Alice and 11 'chat_message'
\* records for Bob in session s1, the report of s1 has activity_breakdown =
\* {question: 6, chat_message: 11}, unique_participants = 2, and
\* recommendations that include both the extend-Q&A line and the
\* good-chat-interaction line.
C14_ScenarioBreakdown ==
    (Reported /\ last.session_id = "s1" /\ ScenarioTracked) =>
        /\ last.result.activity_breakdown
              = << <<"question", 6>>, <<"chat_message", 11>> >>
        /\ last.result.unique_participants = 2
        /\ ManyQuestions \in Lines(last.result)
        /\ GoodChat \in Lines(last.result)

\* C15 as stated: after tracking 6 records for Alice and 11 records for Bob
\* in session s1 (17 records, 2 participants), the report of s1 has
\* engagement_score = 37.
C15_ScenarioScore37 ==
    (Reported /\ last.session_id = "s1" /\ ScenarioTracked) =>
        last.result.engagement_score = 37

\* The read of a report read 6 records of Alice and 11 records of Bob, and no
\* other record.
ScenarioRead ==
    LET records == RecordsRead(last.session_id, last.env)
    IN  /\ Len(records) = 17
        /\ CountOf(records, "Alice") = 6
        /\ CountOf(records, "Bob") = 11

\* C15 amended: when the store holds 6 records of Alice and 11 records of Bob
\* for session s1 (17 records, 2 participants), the report of s1 has
\* engagement_score = min(100, 17*2 + 2*10) = 54.
C15_ScenarioScore54 ==
    (Reported /\ ScenarioRead) =>
        /\ last.result.total_activities = 17
        /\ last.result.unique_participants = 2
        /\ last.result.engagement_score = 54

\* The report of s1 after the scenario, every call of which read its own clock
\* value: 17 records of 2 participants.
C15_Witness ==
    /\ Reported
    /\ last.session_id = "s1"
    /\ ScenarioTracked
    /\ ScenarioRead
    /\ last.result.engagement_score = 54

\* The outcomes of a read on the fallback path in which every call made
\* succeeds (the table can neither be loaded nor created).
FallbackRead ==
    [load |-> "ClientError", create |-> "ClientError", query |-> Unused,
     getlog |-> "ok", clock |-> 0]

\* What the read operations return for a session, from the table and from the
\* log stream.
ReadsOf(table, streams, s) ==
    <<ParticipantsOf(table, streams, s, ReliableRead),
      ParticipantsOf(table, streams, s, FallbackRead),
      AnalyticsOf(table, streams, s, ReliableRead),
      AnalyticsOf(table, streams, s, FallbackRead)>>

\* A step that is a track call.
TrackStep == calls' # calls /\ last'.op = "track"

\* C16: sessions are isolated by session_id: a track call for session A never
\* changes the result (participants, counts, score, breakdown,
\* recommendations) of get_participants or get_engagement_analytics for any
\* other session B, on the primary path and on the fallback log path alike.
C16_SessionsIsolated ==
    [][TrackStep =>
          \E table \in {ddb'}, streams \in {cwl'} :
              \A s \in Sessions \ {last'.session_id} :
                  ReadsOf(table, streams, s) = ReadsOf(ddb, cwl, s)]_vars

\* A track call for one session was taken by the log stream of that session
\* while the table and the log stream of the other session hold a record.
C16_Witness ==
    /\ last.op = "track"
    /\ Tracked(last.result)
    /\ last.result.storage = "CloudWatch Logs"
    /\ last.session_id = "s2"
    /\ cwl["s2"] # <<>>
    /\ cwl["s1"] # <<>>
    /\ \E i \in ddb : i.session_id = "s1"
    /\ ParticipantsOf(ddb, cwl, "s1", FallbackRead).total_participants = 1
    /\ ParticipantsOf(ddb, cwl, "s1", ReliableRead).total_participants = 1

\* A step that is a call of a read operation.
ReadStep ==
    /\ last.op = "none"
    /\ last'.op \in {"get_participants", "get_engagement_analytics"}

\* The participant names of a sequence of records.
NamesOf(records) == {Who(records[i]) : i \in 1..Len(records)}

\* A result of a read operation, the timestamp of the response aside.
WithoutTimestamp(result) ==
    [k \in DOMAIN result \ {"timestamp"} |-> result[k]]

\* What the read operation op returns for a session, the stores being table
\* and streams.
ResultOf(op, table, streams, session_id, e) ==
    IF op = "get_participants"
    THEN ParticipantsOf(table, streams, session_id, e)
    ELSE AnalyticsOf(table, streams, session_id, e)

\* The calls of two reads had equal outcomes: get_dynamodb_table gave the
\* same (the table, None or the same exception), and the call made to the
\* store consulted (query or get_log_events) ended the same way.
SameOutcomes(e1, e2) ==
    /\ get_dynamodb_table(e1.load, e1.create).kind
          = get_dynamodb_table(e2.load, e2.create).kind
    /\ (e1.load = "Error") = (e2.load = "Error")
    /\ (e1.create = "Error") = (e2.create = "Error")
    /\ e1.query = e2.query
    /\ e1.getlog = e2.getlog

\* The outcomes the calls of a second read of the session can have after a
\* read that left the table existing or not and ended at t; the clock shows
\* the second read the same value or a later one.
SecondReads(exists, session_id, t) ==
    {[e EXCEPT !.clock = c] :
        e \in ReadEnvsWhen(exists, session_id, t), c \in {t, t + MaxTime}}

\* The read is followed by no change of the record log.
LogUnchanged ==
    /\ ddb' = ddb
    /\ cwl' = cwl
    /\ logStreams' = logStreams
    /\ logGroup' = logGroup

C18_AllActive ==
    last.op = "get_participants" =>
        LET r == last.result
        IN  /\ \A i \in 1..Len(r.participants) :
                  /\ r.participants[i].status = "active"
                  /\ r.participants[i].activity_count >= 1
            /\ r.total_participants = Len(r.participants)
            /\ r.active_count = r.total_participants

\* A result with several summaries, one of a participant with one record and
\* one of a participant with more.
C18_Witness ==
    /\ last.op = "get_participants"
    /\ \E i, j \in 1..Len(last.result.participants) :
          /\ last.result.participants[i].activity_count = 1
          /\ last.result.participants[j].activity_count > 1
    /\ last.result.active_count = Len(last.result.participants)

\* The server has answered a POST /chat whose body is a JSON object.
ChatAnswered ==
    /\ exchange # NoExchange
    /\ exchange.request.method = "POST"
    /\ exchange.request.path = "/chat"
    /\ exchange.request.body = "object"

\* The purposes of the inference calls made for the exchange.
Purposes ==
    [i \in 1..Len(exchange.invocations) |-> exchange.invocations[i].purpose]

\* C19 as stated: there is no retry, and handling one POST /chat message
\* makes exactly one call to the model-inference service, in the production
\* and in the debug variant (stated for the messages the service answers).
C19_OneInferenceCall ==
    (ChatAnswered /\ server.variant \in {"production", "debug"}
        /\ exchange.reply.response = "answer") =>
        Len(exchange.invocations) = 1

\* C19 amended: there is no retry: no call to the model-inference service is
\* made after one that failed, and handling one POST /chat message makes at
\* most one call for the message.  The production variant makes that call
\* and no other, and makes it exactly when the workshop content is loaded and
\* the message is a string.  The debug variant makes a connectivity test call
\* before it: a string message costs two calls when the client is
\* initialised and the test succeeds, one (the test) when the test fails, and
\* none without a client.
C19_NoRetry ==
    (ChatAnswered /\ server.variant \in {"production", "debug"}) =>
        LET inv == exchange.invocations
            text == exchange.request.message = "text"
        IN  /\ \A i \in 1..(Len(inv) - 1) : inv[i].outcome # "raise"
            /\ Cardinality({i \in 1..Len(inv) : inv[i].purpose = "message"}) <= 1
            /\ server.variant = "production" =>
                  Purposes = (IF text /\ server.content THEN <<"message">>
                              ELSE <<>>)
            /\ server.variant = "debug" =>
                  Purposes = (IF ~text \/ ~server.client THEN <<>>
                              ELSE IF inv[1].outcome = "raise" THEN <<"test">>
                              ELSE <<"test", "message">>)

\* The debug server answered a chat message after two inference calls: the
\* connectivity test and the call for the message.
C19_Witness ==
    /\ ChatAnswered
    /\ server.variant = "debug"
    /\ exchange.status = 200
    /\ exchange.reply.response = "answer"
    /\ Purposes = <<"test", "message">>

\* The request is one the handlers serve.
Served(request) ==
    \/ request.method = "POST" /\ request.path = "/chat"
    \/ request.method = "GET" /\ request.path \in {"/health", "/"}

\* C20 as stated: every request whose path or method is not one of POST
\* /chat, GET /health, GET / is answered with HTTP 404, and every exception
\* raised while handling POST /chat is answered with HTTP 500 carrying the
\* error text.
C20_NotFoundAndServerError ==
    exchange # NoExchange =>
        /\ ~Served(exchange.request) => exchange.status = 404
        /\ (exchange.request.method = "POST" /\ exchange.request.path = "/chat"
               /\ exchange.raised # <<>>) =>
              /\ exchange.status = 500
              /\ exchange.reply = exchange.raised[Len(exchange.raised)]

\* C20 amended: every GET or POST request whose path the handler of its
\* method does not serve is answered 404, and every request of another method
\* is answered 501 by the base handler, whatever its path.  Every exception
\* raised in the handler of POST /chat itself (reading Content-Length,
\* decoding the body, reading a body that is not an object) is answered 500
\* carrying the error text, in the three servers, and the production and
\* debug servers answer no request 500 for another reason: an exception
\* raised inside process_message of their agents is caught there and
\* answered 200 with the error text in 'response'.  Nothing is stated of a
\* failure inside the agent of src/server.py.
C20_NotFoundNotImplementedServerError ==
    exchange # NoExchange =>
        LET request == exchange.request
            chat == request.method = "POST" /\ request.path = "/chat"
            inHandler == chat /\ request.body # "object"
            inAgent == /\ chat
                       /\ request.body = "object"
                       /\ server.variant \in {"production", "debug"}
        IN  /\ (request.method \in {"GET", "POST"} /\ ~Served(request)) =>
                  exchange.status = 404
            /\ request.method \notin {"GET", "POST"} => exchange.status = 501
            /\ (Served(request) /\ (inHandler \/ inAgent \/ ~chat)) =>
                  exchange.status \in {200, 500}
            /\ inHandler =>
                  /\ exchange.status = 500
                  /\ exchange.raised # <<>>
                  /\ exchange.invocations = <<>>
                  /\ exchange.reply = exchange.raised[Len(exchange.raised)]
            /\ (exchange.status = 500
                   /\ server.variant \in {"production", "debug"}) => inHandler
            /\ (inAgent /\ exchange.raised # <<>>) =>
                  /\ exchange.status = 200
                  /\ exchange.reply.response[2]
                        = exchange.raised[Len(exchange.raised)]

\* A POST /chat whose body is not JSON was answered 500 with the decoder's
\* error text.
C20_Witness ==
    /\ exchange # NoExchange
    /\ exchange.request.method = "POST"
    /\ exchange.request.path = "/chat"
    /\ exchange.request.body = "not_json"
    /\ exchange.status = 500
    /\ exchange.reply = "JSONDecodeError"

\* The 'session_id' member of the request the exchange answers, or the default
\* the handler takes when the member is absent.
SessionIdOf(request) ==
    IF request.session_id = "absent" THEN "default" ELSE request.session_id

\* A step inside process_message failed while the exchange was handled: an
\* inference call raised, the call for the message answered without the
\* expected members (the answer of the connectivity test is not read), an
\* exception was caught, or the agent had no client.
StepFailed ==
    \/ \E i \in 1..Len(exchange.invocations) :
          \/ exchange.invocations[i].outcome = "raise"
          \/ /\ exchange.invocations[i].purpose = "message"
             /\ exchange.invocations[i].outcome # "ok"
    \/ exchange.raised # <<>>
    \/ server.variant = "debug" /\ ~server.client

\* C21: a failure of the model-inference call, or of any other step inside
\* process_message, while the production or the debug server handles a POST
\* /chat whose body is a JSON object is not reported as an HTTP error: the
\* answer is 200, its 'response' is a string describing the error (the fixed
\* prefix and the text of the failure), and its 'session_id' is the request's
\* session_id, or 'default' when the request has none.
C21_FailureIsAChatResponse ==
    (ChatAnswered /\ server.variant \in {"production", "debug"}) =>
        /\ exchange.status = 200
        /\ exchange.reply.session_id = SessionIdOf(exchange.request)
        /\ StepFailed <=> exchange.reply.response # "answer"
        /\ StepFailed =>
              /\ exchange.reply.response[1]
                    \in {"I'm having trouble processing your request. Error",
                         "Error", "Bedrock connection failed"}
              /\ exchange.raised # <<>> =>
                    exchange.reply.response[2]
                        = exchange.raised[Len(exchange.raised)]
              /\ exchange.raised = <<>> =>
                    exchange.reply.response[2] = "Bedrock client not initialized"

\* The production server answered 200, with the error text as the response
\* and the default session_id, a message whose inference call raised.
C21_Witness ==
    /\ ChatAnswered
    /\ server.variant = "production"
    /\ exchange.request.session_id = "absent"
    /\ exchange.invocations = <<Invocation("message", "raise")>>
    /\ exchange.status = 200
    /\ exchange.reply = [response |-> Trouble("invoke_model raised"),
                         session_id |-> "default"]

\* C29: when the workshop content directory does not exist (the catalog of
\* the loader is the error placeholder, without 'labs'), process_message of
\* the production server returns a string for every message and raises
\* nothing to the handler: the answer is 200 and its 'response' is the error
\* text of the failed content lookup, and the model-inference service is
\* never called.
C29_NoContentNoInference ==
    (ChatAnswered /\ server.variant = "production" /\ ~server.content) =>
        /\ exchange.status = 200
        /\ exchange.invocations = <<>>
        /\ exchange.reply.response
              = Trouble(IF exchange.request.message = "text"
                        THEN "KeyError: labs" ELSE "AttributeError: lower")
        /\ exchange.raised # <<>>

\* The production server without the content directory answered a string
\* message with the error text of the lookup of 'labs', calling nothing.
C29_Witness ==
    /\ ChatAnswered
    /\ server.variant = "production"
    /\ ~server.content
    /\ exchange.request.message = "text"
    /\ exchange.status = 200
    /\ exchange.reply.response = Trouble("KeyError: labs")
    /\ exchange.invocations = <<>>

\* The successful track calls made for a session.
Accepted(s) ==
    {i \in 1..Len(calls) : calls[i].session_id = s /\ calls[i].tracked}

\* C22: every activity record accepted by a successful track call is
\* reflected in every later get_engagement_analytics and get_participants of
\* its session that reads a store without failure, whatever store took the
\* write and whatever store the read consults: the report counts at least the
\* accepted calls, and the participants result has a summary for every name
\* accepted, counting at least its accepted calls.
C22_AcceptedRecordsAreRead ==
    (last.op \in {"get_participants", "get_engagement_analytics"}
        /\ ~ReadFailed(last.env)
        /\ "error" \notin DOMAIN last.result) =>
        IF last.op = "get_engagement_analytics"
        THEN last.result.total_activities
                >= Cardinality(Accepted(last.session_id))
        ELSE \A p \in Participants :
                TrackedCalls(last.session_id, p) # {} =>
                    \E i \in SummariesOf(last.result, p) :
                        last.result.participants[i].activity_count
                            >= Cardinality(TrackedCalls(last.session_id, p))

\* A step that is a track call reporting failure (tracked=false).
FailedTrackStep ==
    /\ calls' # calls
    /\ last'.op = "track"
    /\ ~Tracked(last'.result)

\* C23: a track call that returns tracked=false has added no activity record
\* to either store: the items of the table and the events of every log stream
\* are what they were before the call.
C23_FailureAddsNoRecord ==
    [][FailedTrackStep => (ddb' = ddb /\ cwl' = cwl)]_vars

\* A track call of session "s1" failed in put_log_events, after the stream of
\* the session was found to exist; the stream holds the one record an earlier
\* run made and the table holds none.
C23_Witness ==
    /\ last.op = "track"
    /\ last.session_id = "s1"
    /\ ~Tracked(last.result)
    /\ last.result.error[2] = Exc("Error", "put_log_events")
    /\ cwl["s1"] = EventsOf(<<Earlier("s1")>>)
    /\ ddb = {}

\* The sum of a list of numbers.
RECURSIVE SumOf(_)
SumOf(counts) ==
    IF counts = <<>> THEN 0 ELSE Head(counts) + SumOf(Tail(counts))

\* C24: for every state of the stores that get_participants and
\* get_engagement_analytics read without failure (the same store, with the
\* same outcomes of the store calls, every record read having its participant
\* and its timestamp), total_participants of the one equals
\* unique_participants of the other, and the sum of activity_count over the
\* summaries equals total_activities, which equals the sum of the counts of
\* activity_breakdown.
C24_ReadsAgree ==
    (last.op \in {"get_participants", "get_engagement_analytics"}
        /\ ~ReadFailed(last.env)
        /\ Incomplete(RecordsRead(last.session_id, last.env)) = {}) =>
        LET g == IF last.op = "get_participants" THEN last.result
                 ELSE ParticipantsOf(ddb, cwl, last.session_id, last.env)
            a == IF last.op = "get_engagement_analytics" THEN last.result
                 ELSE AnalyticsOf(ddb, cwl, last.session_id, last.env)
            counts == [i \in 1..Len(g.participants) |->
                          g.participants[i].activity_count]
        IN  /\ "error" \notin DOMAIN g
            /\ "error" \notin DOMAIN a
            /\ g.total_participants = a.unique_participants
            /\ SumOf(counts) = a.total_activities
            /\ SumOf(DictValues(a.activity_breakdown)) = a.total_activities

\* A report of a session with several participants, some with several
\* records, and with both questions and chat messages.
C24_Witness ==
    /\ last.op = "get_engagement_analytics"
    /\ ~ReadFailed(last.env)
    /\ last.result.unique_participants >= 3
    /\ last.result.total_activities > last.result.unique_participants
    /\ Len(last.result.activity_breakdown) = 2
    /\ ParticipantsOf(ddb, cwl, last.session_id, last.env).total_participants
          = last.result.unique_participants

\* C27: no report of get_engagement_analytics holds both the low-engagement
\* line and the good-chat line: a report with chat_count > 10 has an
\* engagement_score of at least 32 (eleven records of at least one
\* participant), which is not below the low-engagement threshold.
C27_LowEngagementExcludesGoodChat ==
    Reported =>
        LET r == last.result
            lines == {r.recommendations[i] : i \in 1..Len(r.recommendations)}
            chat_count == DictGet(r.activity_breakdown, "chat_message", 0)
        IN  /\ chat_count > 10 => r.engagement_score >= 32
            /\ ~(LowEngagement \in lines /\ GoodChat \in lines)

\* A report of eleven chat messages by one participant: the score is 32, the
\* good-chat line is in, the low-engagement line is not.
C27_Witness ==
    /\ Reported
    /\ DictGet(last.result.activity_breakdown, "chat_message", 0) = 11
    /\ last.result.unique_participants = 1
    /\ last.result.engagement_score = 32
    /\ \E i \in 1..Len(last.result.recommendations) :
          last.result.recommendations[i] = GoodChat
    /\ \A i \in 1..Len(last.result.recommendations) :
          last.result.recommendations[i] # LowEngagement

\* The result of get_workshop_stats is the stats object built from the two
\* results it read.
IsStatsOf(r, participants_data, analytics_data) ==
    /\ "error" \notin DOMAIN r
    /\ r.participation.currently_joined = participants_data.active_count
    /\ r.participation.total_participants = participants_data.total_participants
    /\ r.engagement.total_activities = analytics_data.total_activities
    /\ r.engagement.engagement_score = analytics_data.engagement_score
    /\ r.engagement.questions_asked
          = DictGet(analytics_data.activity_breakdown, "question", 0)
    /\ r.engagement.chat_messages
          = DictGet(analytics_data.activity_breakdown, "chat_message", 0)

\* The result of get_workshop_stats is the error object of the session.
IsStatsError(r, session_id) ==
    /\ DOMAIN r = {"session_id", "error", "timestamp"}
    /\ r.session_id = session_id
    /\ r.error[1] = "Failed to get workshop stats"

\* C25 as stated: get_workshop_stats never raises; it returns the error
\* object carrying the session_id and a description when the analytics read
\* failed (error report without activity_breakdown), and in every other case
\* a stats object whose participation and engagement figures are those of
\* get_participants and get_engagement_analytics for the session.
C25_StatsUnlessAnalyticsFailed ==
    last.op = "get_workshop_stats" =>
        LET g == ParticipantsOf(ddb, cwl, last.session_id, last.env.participants)
            a == AnalyticsOf(ddb, cwl, last.session_id, last.env.analytics)
        IN  /\ "raised" \notin DOMAIN last.result
            /\ IF AnalyticsFailed(a)
               THEN IsStatsError(last.result, last.session_id)
               ELSE IsStatsOf(last.result, g, a)

\* C25 amended: get_workshop_stats never raises; it returns the error object
\* carrying the session_id and a description when the analytics read failed
\* (error report without activity_breakdown) or when the get_dynamodb_table
\* call that names the storage raised, and in every other case a stats object
\* whose participation and engagement figures are those of get_participants
\* and get_engagement_analytics for the session (zeros for participation when
\* the participants read failed).
C25_StatsOrError ==
    last.op = "get_workshop_stats" =>
        LET g == ParticipantsOf(ddb, cwl, last.session_id, last.env.participants)
            a == AnalyticsOf(ddb, cwl, last.session_id, last.env.analytics)
            storage == get_dynamodb_table(last.env.load, last.env.create)
        IN  /\ "raised" \notin DOMAIN last.result
            /\ IF AnalyticsFailed(a)
               THEN /\ IsStatsError(last.result, last.session_id)
                    /\ last.result.error[2] = Exc("KeyError", "activity_breakdown")
               ELSE IF storage.kind = "raise"
               THEN /\ IsStatsError(last.result, last.session_id)
                    /\ last.result.error[2] = storage.exc
               ELSE /\ IsStatsOf(last.result, g, a)
                    /\ last.result.technical_health.storage_status
                          = (IF storage.kind = "table" THEN "DynamoDB"
                             ELSE "CloudWatch Logs")

\* Statistics of a session with records, read a minute after the first join:
\* both reads succeeded and the stats object carries their figures.
C25_Witness ==
    /\ last.op = "get_workshop_stats"
    /\ ~ReadFailed(last.env.participants)
    /\ ~ReadFailed(last.env.analytics)
    /\ "error" \notin DOMAIN last.result
    /\ last.result.participation.total_participants = 2
    /\ last.result.engagement.total_activities = 2
    /\ last.result.engagement.engagement_score = 24
    /\ last.result.session_info.duration_minutes = 1

\* A step that is a call of process_chat_message.
ChatStep ==
    /\ chat_history' # chat_history
    /\ turn'.op = "process_chat_message"

\* C26: process_chat_message classifies by an ordered, first-match-wins rule
\* list: a message with none of the trigger substrings (@bot, question:,
\* help, stuck, issue) gets no response (None); a triggered message with any
\* of login, access, permission, error, stuck, deploy is handled as a
\* technical issue; every other triggered message is handled as a general
\* question.  Every call appends exactly one 'chat' entry to chat_history,
\* before the classification: it is the first entry added, whatever the
\* handler does afterwards.
C26_OrderedClassification ==
    [][ChatStep =>
          \E text \in {lower(turn'.message)},
             added \in {SubSeq(chat_history', Len(chat_history) + 1,
                               Len(chat_history'))} :
              \E triggered \in {ContainsAny(Triggers, text)},
                 technical \in {ContainsAny(TechnicalKeywords, text)} :
                  /\ IsPrefix(chat_history, chat_history')
                  /\ added # <<>>
                  /\ \E t \in Readings(now) :
                        added[1] = [timestamp |-> t,
                                    participant |-> turn'.participant,
                                    message |-> turn'.message, type |-> "chat"]
                  /\ Len(EntriesOf(added, "chat")) = 1
                  /\ ~triggered =>
                        /\ turn'.handler = "none"
                        /\ turn'.result = None
                        /\ Len(added) = 1
                  /\ (triggered /\ technical) =>
                        /\ turn'.handler = "_handle_technical_issue"
                        /\ Len(added) = 2
                        /\ added[2].type = "technical_support"
                  /\ (triggered /\ ~technical) =>
                        /\ turn'.handler = "_handle_general_question"
                        /\ IF "raised" \in DOMAIN turn'.result
                           THEN Len(added) = 1
                           ELSE Len(added) = 2 /\ added[2].type = "qa"]_vars

\* The message "STUCK", a trigger and a technical keyword at once, was
\* handled as a technical issue after its 'chat' entry was logged.
C26_Witness ==
    /\ turn.op = "process_chat_message"
    /\ turn.message = "STUCK"
    /\ turn.handler = "_handle_technical_issue"
    /\ Len(chat_history) = 2
    /\ chat_history[1].type = "chat"
    /\ chat_history[2].type = "technical_support"

\* C28: for every message process_chat_message hands to
\* _handle_technical_issue, the issue type the first-match chain (login,
\* permission, security, setup, deployment, general) chooses is never
\* 'general': the last branch of the chain is not reached from
\* process_chat_message.
C28_NeverGeneralIssue ==
    (turn.op = "process_chat_message"
        /\ turn.handler = "_handle_technical_issue") =>
        /\ turn.result.issue_type
              \in {"login", "permission", "security", "setup", "deployment"}
        /\ chat_history[Len(chat_history)].response.issue_type # "general"

\* A message for the bot about an error went to _handle_technical_issue, and
\* the chain chose its last branch but one, deployment.
C28_Witness ==
    /\ turn.op = "process_chat_message"
    /\ turn.message = "Help error"
    /\ turn.handler = "_handle_technical_issue"
    /\ turn.result.issue_type = "deployment"

\* C30: the Recommendations section of generate_engagement_summary is never
\* empty, for any chat_history: when none of the three threshold
\* recommendations (technical_issues > 3, questions_asked > 10,
\* technical_issues = 0 and questions_asked < 3) fires, the 'Workshop running
\* smoothly!' line is emitted.
C30_RecommendationsNeverEmpty ==
    turn.op = "generate_engagement_summary" =>
        LET r == turn.result
            fires == \/ r.technical_issues > 3
                     \/ r.questions_answered > 10
                     \/ r.technical_issues = 0 /\ r.questions_answered < 3
        IN  /\ r.recommendations # <<>>
            /\ ~fires => r.recommendations = <<"Workshop running smoothly!">>
====
